---------------------------- MODULE Spec2Model ----------------------------
(***************************************************************************)
(* A model of AbstractVM (42-Course/abstract_vm): the operand type system, *)
(* the lexer, the parser, the command set and the virtual machine's run.   *)
(*                                                                         *)
(* Text (std::string) is a sequence of one-character strings.  Numbers are *)
(* kept as decimal digit sequences so that the 32-bit kind's limits and    *)
(* the products of two 32-bit values are represented exactly.              *)
(***************************************************************************)
EXTENDS Integers, Sequences, FiniteSets, TLC

(***************************************************************************)
(* Natural numbers of arbitrary size: a magnitude is a sequence of limbs   *)
(* in 0..999 (base 1000), least significant first, with no high zero limb; *)
(* <<>> is zero.  The model checker's own integers have 32 bits.           *)
(***************************************************************************)
DigitChars == <<"0", "1", "2", "3", "4", "5", "6", "7", "8", "9">>

IsDigit(c) == \E d \in 1..10 : DigitChars[d] = c

DigitVal(c) == (CHOOSE d \in 1..10 : DigitChars[d] = c) - 1

DigitChar(d) == DigitChars[d + 1]

RECURSIVE MagNorm(_)
\* m without its leading zero limbs
MagNorm(m) ==
    IF m = <<>> THEN <<>>
    ELSE IF m[Len(m)] = 0 THEN MagNorm(SubSeq(m, 1, Len(m) - 1))
    ELSE m

\* -1, 0 or 1 as a < b, a = b, a > b: the most significant limb that differs decides
MagCmp(a, b) ==
    LET Differ(d) ==
            IF d = {} THEN 0
            ELSE IF \E i \in d : a[i] < b[i] /\ \A j \in d : j <= i THEN -1
            ELSE 1
    IN  IF Len(a) < Len(b) THEN -1
        ELSE IF Len(a) > Len(b) THEN 1
        ELSE Differ({i \in 1..Len(a) : a[i] # b[i]})

At(a, i) == IF 1 <= i /\ i <= Len(a) THEN a[i] ELSE 0

RECURSIVE MagCarry(_)
\* the magnitude of the column sums cols (each below 2^31): every column keeps
\* its last limb and gives the rest to the next one, until none has a rest
MagCarry(cols) ==
    LET Given(keep, rest) ==
            MagCarry([i \in 1..Len(keep) |-> (keep[i] % 1000) + (rest[i] \div 1000)])
    IN  IF \A i \in 1..Len(cols) : cols[i] < 1000 THEN MagNorm(cols)
        ELSE Given(cols \o <<0>>, <<0>> \o cols)

MagAdd(a, b) ==
    IF a = <<>> THEN b
    ELSE IF b = <<>> THEN a
    ELSE MagCarry([i \in 1..(IF Len(a) > Len(b) THEN Len(a) ELSE Len(b)) |-> At(a, i) + At(b, i)])

\* a - b, for a >= b: limb i borrows when a limb below it is less than b's and
\* the limbs between them do not exceed b's
MagSub(a, b) ==
    LET Borrowed(s, low) ==
            MagNorm(SubSeq([i \in 1..Len(a) |->
                (a[i] + 1000 - s[i]
                 - (IF \E j \in low : j < i /\ \A k \in (j + 1)..(i - 1) : a[k] <= s[k]
                    THEN 1 ELSE 0)) % 1000], 1, Len(a)))
        Padded(s) == Borrowed(s, {j \in 1..Len(a) : a[j] < s[j]})
    IN  IF b = <<>> THEN a
        ELSE Padded(b \o [i \in 1..(Len(a) - Len(b)) |-> 0])

\* a * k, for 0 <= k <= 2^21 (the columns stay below 2^31)
MagMulSmall(a, k) == IF a = <<>> \/ k = 0 THEN <<>> ELSE MagCarry([i \in 1..Len(a) |-> a[i] * k])

\* a * 10^k
MagShift(a, k) ==
    IF a = <<>> THEN <<>>
    ELSE [i \in 1..(k \div 3) |-> 0]
         \o MagMulSmall(a, CASE k % 3 = 0 -> 1 [] k % 3 = 1 -> 10 [] k % 3 = 2 -> 100)

RECURSIVE MagColumn(_, _, _, _)
\* column k of the long multiplication: the sum of a[j] * b[k + 1 - j] over j >= i
MagColumn(a, b, k, i) ==
    IF i > Len(a) \/ i > k THEN 0
    ELSE (IF k + 1 - i <= Len(b) THEN a[i] * b[k + 1 - i] ELSE 0) + MagColumn(a, b, k, i + 1)

\* a * b by long multiplication (each column sum stays below 2^31)
MagMul(a, b) ==
    IF a = <<>> \/ b = <<>> THEN <<>>
    ELSE IF b = <<1>> THEN a
    ELSE IF a = <<1>> THEN b
    ELSE MagCarry([k \in 1..(Len(a) + Len(b) - 1) |-> MagColumn(a, b, k, IF k > Len(b) THEN k + 1 - Len(b) ELSE 1)])

\* the value of the limbs of m from limb n - 1 on (at most three of them)
MagLead(m, n) ==
    LET s == IF n > 2 THEN n - 2 ELSE 0
    IN  At(m, s + 1) + 1000 * At(m, s + 2) + 1000000 * At(m, s + 3)

\* the largest k with b * k <= r, for b <= r < 1000 * b: the quotient e of the
\* leading limbs is that k or up to two above it
MagLimbSearch(r, b) ==
    LET Below(e) ==
            e - Cardinality({j \in 0..3 : j <= e /\ MagCmp(MagMulSmall(b, e - j), r) > 0})
    IN  Below(MagLead(r, Len(b)) \div MagLead(b, Len(b)))

RECURSIVE MagDivStep(_, _, _, _)
\* long division of a by b with the limbs q of the quotient found so far and
\* the remainder r left by them: the next limb of a is brought down
MagDivStep(a, b, q, r) ==
    LET i == Len(a) - Len(b) + 1 - Len(q)
        r1 == <<a[i]>> \o r
        k == IF MagCmp(r1, b) < 0 THEN 0 ELSE MagLimbSearch(r1, b)
    IN  IF i = 0 THEN [q |-> MagNorm(q), r |-> r]
        ELSE IF r = <<>> /\ a[i] = 0 THEN MagDivStep(a, b, <<0>> \o q, r)
        ELSE MagDivStep(a, b, <<k>> \o q, IF k = 0 THEN r1 ELSE MagSub(r1, MagMulSmall(b, k)))

\* quotient and remainder of a by b, for b > 0: long division from the first
\* limb of a where the quotient can have a limb
MagDivMod(a, b) ==
    IF b = <<1>> THEN [q |-> a, r |-> <<>>]
    ELSE IF Len(a) < Len(b) THEN [q |-> <<>>, r |-> a]
    ELSE MagDivStep(a, b, <<>>, MagNorm(SubSeq(a, Len(a) - Len(b) + 2, Len(a))))

MagOne == <<1>>

MagTwo == <<2>>

RECURSIVE MagOfNat(_)
MagOfNat(n) == IF n = 0 THEN <<>> ELSE <<n % 1000>> \o MagOfNat(n \div 1000)

RECURSIVE NatOfMagFrom(_, _)
NatOfMagFrom(m, i) == IF i > Len(m) THEN 0 ELSE m[i] + 1000 * NatOfMagFrom(m, i + 1)

\* for magnitudes that fit the checker's integers
NatOfMag(m) == NatOfMagFrom(m, 1)

RECURSIVE MagPow2(_)
\* 2^k, by squaring above the powers that fit an integer
MagPow2(k) ==
    IF k <= 30 THEN MagOfNat(2^k)
    ELSE IF k % 2 = 1 THEN MagMulSmall(MagPow2(k - 1), 2)
    ELSE LET h == MagPow2(k \div 2) IN MagMul(h, h)

\* the decimal digit of weight 10^j (j = 0, 1, 2) of a limb
LimbDigit(l, j) == CASE j = 0 -> l % 10 [] j = 1 -> (l \div 10) % 10 [] j = 2 -> l \div 100

\* text of a magnitude, most significant digit first; "0" for zero
MagText(m) ==
    IF m = <<>> THEN <<"0">>
    ELSE LET top == m[Len(m)]
             n   == 3 * (Len(m) - 1) + (IF top >= 100 THEN 3 ELSE IF top >= 10 THEN 2 ELSE 1)
         IN  [i \in 1..n |-> DigitChar(LimbDigit(m[((n - i) \div 3) + 1], (n - i) % 3))]

\* magnitude of a text of digits
TextMag(t) ==
    LET n == Len(t)
        D(j) == IF j < n THEN DigitVal(t[n - j]) ELSE 0
    IN  MagNorm([i \in 1..((n + 2) \div 3) |->
                    D(3 * i - 3) + 10 * D(3 * i - 2) + 100 * D(3 * i - 1)])

(***************************************************************************)
(* long double, the extended-precision intermediate of Operand.tpp: a sign *)
(* and an exact magnitude num/den.  The sign is kept apart so that the     *)
(* negative zero of IEEE arithmetic exists.  Results are exact: the 64-bit *)
(* mantissa rounding of the hardware type is not modelled, which is exact  *)
(* for the three integer kinds (|a * b| < 2^62).                           *)
(***************************************************************************)
Ld(neg, num, den) == [neg |-> neg, num |-> num, den |-> den]

LdIsZero(x) == x.num = <<>>

\* |x| against |y|; a product of magnitudes of p and q digits has p + q - 1 or
\* p + q digits, which settles most comparisons without multiplying
LdCmpMag(x, y) ==
    IF x.num = <<>> \/ y.num = <<>> THEN MagCmp(x.num, y.num)
    ELSE IF Len(x.num) + Len(y.den) < Len(y.num) + Len(x.den) - 1 THEN -1
    ELSE IF Len(y.num) + Len(x.den) < Len(x.num) + Len(y.den) - 1 THEN 1
    ELSE MagCmp(MagMul(x.num, y.den), MagMul(y.num, x.den))

\* -1, 0 or 1 as x < y, x = y, x > y (the two zeros are equal)
LdCmp(x, y) ==
    IF LdIsZero(x) /\ LdIsZero(y) THEN 0
    ELSE IF x.neg /\ ~y.neg THEN -1
    ELSE IF ~x.neg /\ y.neg THEN 1
    ELSE IF x.neg THEN 0 - LdCmpMag(x, y)
    ELSE LdCmpMag(x, y)

\* leftValue + rightValue
LdAdd(x, y) ==
    LET Sum(a, b, d, c) ==
            IF x.neg = y.neg THEN Ld(x.neg, MagAdd(a, b), d)
            ELSE IF c = 0 THEN Ld(FALSE, <<>>, d)
            ELSE Ld(IF c > 0 THEN x.neg ELSE y.neg,
                    MagSub(IF c > 0 THEN a ELSE b, IF c > 0 THEN b ELSE a), d)
        Over(a, b, d) == Sum(a, b, d, MagCmp(a, b))
    IN  Over(MagMul(x.num, y.den), MagMul(y.num, x.den), MagMul(x.den, y.den))

\* leftValue - rightValue
LdSub(x, y) == LdAdd(x, Ld(~y.neg, y.num, y.den))

\* leftValue * rightValue
LdMul(x, y) == Ld(x.neg # y.neg, MagMul(x.num, y.num), MagMul(x.den, y.den))

\* leftValue / rightValue, for rightValue # 0
LdDiv(x, y) == Ld(x.neg # y.neg, MagMul(x.num, y.den), MagMul(x.den, y.num))

\* the mutation of fmodl that takes the remainder of the flooring division,
\* with the sign of the divisor
LdFmodFloor(x, y) ==
    LET Floored(r) == IF ~LdIsZero(r) /\ x.neg # y.neg THEN LdAdd(r, y) ELSE r
    IN  Floored(Ld(x.neg,
                   MagDivMod(MagMul(x.num, y.den), MagMul(y.num, x.den)).r,
                   MagMul(x.den, y.den)))

\* fmodl(leftValue, rightValue), for rightValue # 0: the remainder of the
\* truncating division, with the sign of the dividend
LdFmod(x, y) ==
    Ld(x.neg,
       MagDivMod(MagMul(x.num, y.den), MagMul(y.num, x.den)).r,
       MagMul(x.den, y.den))

\* round(num / den) to the nearest natural, ties to even
MagRoundDiv(num, den) ==
    LET Up(q, c) ==
            IF c > 0 \/ (c = 0 /\ q # <<>> /\ q[1] % 2 = 1) THEN MagAdd(q, MagOne) ELSE q
        Round(dm) ==
            IF dm.r = <<>> THEN dm.q ELSE Up(dm.q, MagCmp(MagMulSmall(dm.r, 2), den))
    IN  Round(MagDivMod(num, den))

\* std::to_string(long double): "%Lf", six digits after the point
ToStringLd(x) ==
    LET Pad(q) == [i \in 1..(IF Len(q) < 7 THEN 7 - Len(q) ELSE 0) |-> "0"] \o q
        Point(t) == (IF x.neg THEN <<"-">> ELSE <<>>)
                    \o SubSeq(t, 1, Len(t) - 6) \o <<".">> \o SubSeq(t, Len(t) - 5, Len(t))
    IN  Point(Pad(MagText(MagRoundDiv(MagShift(x.num, 6), x.den))))

RECURSIVE SkipDigits(_, _)
\* the first position from i on that holds no digit
SkipDigits(t, i) ==
    IF i <= Len(t) /\ IsDigit(t[i]) THEN SkipDigits(t, i + 1) ELSE i

\* the decimal value std::stold reads: the longest prefix
\* [sign] digits [. digits] [e [sign] digits]; ok is FALSE where stold throws
\* std::invalid_argument
DecimalValue(t) ==
    LET neg == Len(t) >= 1 /\ t[1] = "-"
        s   == IF Len(t) >= 1 /\ t[1] \in {"-", "+"} THEN 2 ELSE 1
        Value(mant, den, eNeg, expo) ==
            IF eNeg THEN Ld(neg, mant, MagShift(den, expo))
            ELSE Ld(neg, MagShift(mant, expo), den)
        Result(intD, fracD, eNeg, expo) ==
            IF intD = <<>> /\ fracD = <<>> THEN [ok |-> FALSE, val |-> Ld(FALSE, <<>>, MagOne)]
            ELSE [ok |-> TRUE,
                  val |-> Value(TextMag(intD \o fracD), MagShift(MagOne, Len(fracD)),
                                eNeg, expo)]
        ExpDigits(e1, e2) ==
            IF e2 > e1 THEN NatOfMag(TextMag(SubSeq(t, e1, e2 - 1))) ELSE 0
        Exponent(intD, fracD, i2) ==
            LET hasE == i2 <= Len(t) /\ t[i2] \in {"e", "E"}
                eSgn == hasE /\ i2 + 1 <= Len(t) /\ t[i2 + 1] \in {"-", "+"}
                e1   == IF eSgn THEN i2 + 2 ELSE i2 + 1
            IN  Result(intD, fracD, eSgn /\ t[i2 + 1] = "-",
                       IF hasE THEN ExpDigits(e1, SkipDigits(t, e1)) ELSE 0)
        Fraction(i1) ==
            LET hasDot == i1 <= Len(t) /\ t[i1] = "."
                After(i2) == Exponent(SubSeq(t, s, i1 - 1),
                                      IF hasDot THEN SubSeq(t, i1 + 1, i2 - 1) ELSE <<>>, i2)
            IN  After(IF hasDot THEN SkipDigits(t, i1 + 1) ELSE i1)
    IN  Fraction(SkipDigits(t, s))


(***************************************************************************)
(* Operand type system: eOperandType, Operand<T, Type>, OperandFactory.    *)
(* An operand is [type, value, str]: _value as a long double that the      *)
(* native type T holds exactly, and _strValue.                             *)
(***************************************************************************)
eOperandType == <<"Int8", "Int16", "Int32", "Float", "Double">>

OperandTypes == {eOperandType[i] : i \in 1..5}

IntTypes == {"Int8", "Int16", "Int32"}

\* getPrecision: static_cast<int>(Type)
getPrecision(type) == (CHOOSE i \in 1..5 : eOperandType[i] = type) - 1

\* the mantissa width of float, double
TypeBits == [type \in {"Float", "Double"} |-> IF type = "Float" THEN 24 ELSE 53]

\* std::numeric_limits<T>::digits10 + 1 of float, double
TypePrecision == [type \in {"Float", "Double"} |-> IF type = "Float" THEN 7 ELSE 16]

\* the decimal text of std::numeric_limits<T>::max() for T = int8_t, int16_t,
\* int32_t, float ((2^24 - 1) * 2^104) and double ((2^53 - 1) * 2^971)
typeMaxText == [type \in OperandTypes |->
    CASE type = "Int8" -> <<"1", "2", "7">>
      [] type = "Int16" -> <<"3", "2", "7", "6", "7">>
      [] type = "Int32" -> <<"2", "1", "4", "7", "4", "8", "3", "6", "4", "7">>
      [] type = "Float" -> <<"3", "4", "0", "2", "8", "2", "3", "4", "6", "6", "3", "8", "5", "2", "8", "8", "5", "9", "8", "1", "1", "7", "0", "4", "1", "8", "3", "4", "8", "4", "5", "1", "6", "9", "2", "5", "4", "4", "0">>
      [] type = "Double" -> 
           <<"1", "7", "9", "7", "6", "9", "3", "1", "3", "4", "8", "6", "2", "3", "1", "5", "7", "0", "8", "1", "4", "5", "2", "7", "4", "2", "3", "7", "3", "1", "7", "0", "4", "3", "5", "6", "7", "9", "8", "0", "7", "0", "5", "6", "7", "5", "2", "5", "8", "4", "4", "9", "9", "6", "5", "9", "8", "9", "1", "7", "4", "7", "6", "8", "0", "3", "1", "5", "7", "2", "6", "0", "7", "8", "0", "0", "2", "8", "5", "3", "8", "7", "6", "0", "5", "8", "9", "5", "5", "8", "6", "3", "2", "7", "6", "6", "8", "7", "8", "1", "7", "1", "5", "4", "0", "4", "5", "8", "9", "5", "3", "5", "1", "4", "3", "8", "2", "4", "6", "4", "2", "3", "4", "3", "2", "1", "3", "2", "6", "8", "8", "9", "4", "6", "4", "1", "8", "2", "7", "6", "8", "4", "6", "7", "5", "4", "6", "7", "0", "3", "5", "3", "7", "5", "1", "6", "9", "8", "6", "0", "4", "9", "9", "1", "0", "5", "7", "6", "5", "5", "1", "2", "8", "2", "0", "7", "6", "2", "4", "5", "4", "9", "0", "0", "9", "0", "3", "8", "9", "3", "2", "8", "9", "4", "4", "0", "7", "5", "8", "6", "8", "5", "0", "8", "4", "5", "5", "1", "3", "3", "9", "4", "2", "3", "0", "4", "5", "8", "3", "2", "3", "6", "9", "0", "3", "2", "2", "2", "9", "4", "8", "1", "6", "5", "8", "0", "8", "5", "5", "9", "3", "3", "2", "1", "2", "3", "3", "4", "8", "2", "7", "4", "7", "9", "7", "8", "2", "6", "2", "0", "4", "1", "4", "4", "7", "2", "3", "1", "6", "8", "7", "3", "8", "1", "7", "7", "1", "8", "0", "9", "1", "9", "2", "9", "9", "8", "8", "1", "2", "5", "0", "4", "0", "4", "0", "2", "6", "1", "8", "4", "1", "2", "4", "8", "5", "8", "3", "6", "8">>]

\* std::numeric_limits<T>::max()
typeMax == [type \in OperandTypes |-> Ld(FALSE, TextMag(typeMaxText[type]), MagOne)]

\* std::numeric_limits<T>::lowest(): -max - 1 for the integer types, -max for
\* float and double
typeMin == [type \in OperandTypes |->
    IF type \in IntTypes
    THEN Ld(TRUE, MagAdd(typeMax[type].num, MagOne), MagOne)
    ELSE Ld(TRUE, typeMax[type].num, MagOne)]

\* the mutation of validateBounds that forgets the upper limit
validateBoundsNoMax(type, value) ==
    IF LdCmp(value, typeMin[type]) < 0 THEN "UnderflowException" ELSE "none"

\* the mutation of validateBounds that also refuses the limits themselves
validateBoundsStrict(type, value) ==
    IF LdCmp(value, typeMin[type]) <= 0 THEN "UnderflowException"
    ELSE IF LdCmp(value, typeMax[type]) >= 0 THEN "OverflowException"
    ELSE "none"

\* Operand::validateBounds: the exception it throws, or "none"
validateBounds(type, value) ==
    IF LdCmp(value, typeMin[type]) < 0 THEN "UnderflowException"
    ELSE IF LdCmp(value, typeMax[type]) > 0 THEN "OverflowException"
    ELSE "none"

\* the bits of the largest step among 16, 4 and 1 with x * 2^bits < y, or <= y
\* when c = 1 (one bit when no step has it)
BinStep(x, y, c) ==
    LET Largest(fit) == IF 16 \in fit THEN 16 ELSE IF 4 \in fit THEN 4 ELSE 1
    IN  Largest({b \in {4, 16} : MagCmp(MagMulSmall(x, 2^b), y) < c})

\* n, d, e with n0 / d0 = n / d * 2^e and lod <= n < hid, where lod and hid are
\* d0 times the bounds the scaled value is brought between: n0 is doubled
\* while it is below the lower bound, or the bounds are while it is not below
\* the higher one
BinScale(n0, d0, lod, hid) ==
    LET RECURSIVE Up(_, _), Down(_, _)
        Up(n, e) ==
            LET Grown(b) == Up(MagMulSmall(n, 2^b), e - b)
            IN  IF MagCmp(n, lod) >= 0 THEN [n |-> n, d |-> d0, e |-> e]
                ELSE Grown(BinStep(n, lod, 0))
        Down(h, e) ==
            LET Shrunk(b) == Down(MagMulSmall(h, 2^b), e + b)
            IN  IF MagCmp(n0, h) < 0 THEN [n |-> n0, d |-> MagMul(d0, MagPow2(e)), e |-> e]
                ELSE Shrunk(BinStep(h, n0, 1))
    IN  IF MagCmp(n0, lod) < 0 THEN Up(n0, 0) ELSE Down(hid, 0)

RECURSIVE ReduceTwos(_, _)
\* m / 2^k in lowest terms, for m > 0: [m, k].  1000^j is a multiple of 2^b
\* for the steps (j, b) taken, so that m / 2^b is m * (1000^j / 2^b) less its
\* last j limbs, and m is a multiple of 2^b when its last j limbs are
ReduceTwos(m, k) ==
    LET Shifted(x, j) == SubSeq(x, j + 1, Len(x))
        Halved(j, b) == ReduceTwos(Shifted(MagMulSmall(m, (1000^j) \div (2^b)), j), k - b)
    IN  IF k >= 9 /\ MagLead(m, 2) % 512 = 0 THEN Halved(3, 9)
        ELSE IF k > 0 /\ m[1] % 2 = 0 THEN Halved(1, 1)
        ELSE [m |-> m, k |-> k]

\* the nearest value with a mantissa of p bits, ties to even (the normal
\* range of the type; subnormals are outside the model)
RoundBinary(v, p) ==
    LET Out(up, m, pow) ==
            IF up THEN Ld(v.neg, MagMul(m, pow), MagOne) ELSE Ld(v.neg, m, pow)
        Reduced(up, rd) == Out(up, rd.m, MagPow2(rd.k))
        Rounded(e, m) ==
            Reduced(e >= 0, IF e >= 0 THEN [m |-> m, k |-> e] ELSE ReduceTwos(m, 0 - e))
        Scaled(sc) == Rounded(sc.e, MagRoundDiv(sc.n, sc.d))
        Between(lo, hi) ==
            IF v.den = MagOne /\ MagCmp(v.num, hi) < 0 THEN v
            ELSE Scaled(BinScale(v.num, v.den, MagMul(lo, v.den), MagMul(hi, v.den)))
        From(lo) == Between(lo, MagMulSmall(lo, 2))
    IN  IF LdIsZero(v) THEN Ld(v.neg, <<>>, MagOne)
        ELSE From(MagPow2(p - 1))

\* the bits of the mantissa of long double (the x87 extended format)
LongDoubleBits == 64

\* a value as long double holds it
LongDouble(v) == RoundBinary(v, LongDoubleBits)

\* std::stold: [ok, val]
Stold(t) ==
    LET Read(r) == [ok |-> r.ok, val |-> LongDouble(r.val)]
    IN  Read(DecimalValue(t))

\* static_cast<T>(tempValue) after the bounds check: truncation toward zero
\* for the integer types, rounding to the mantissa for float and double
StaticCast(type, v) ==
    LET Truncated(q) == Ld(v.neg /\ q # <<>>, q, MagOne)
    IN  IF type \in IntTypes THEN Truncated(MagDivMod(v.num, v.den).q)
        ELSE RoundBinary(v, TypeBits[type])

\* the number of decimal digits of a magnitude (0 for zero)
MagDigits(m) ==
    IF m = <<>> THEN 0
    ELSE 3 * (Len(m) - 1)
         + (IF m[Len(m)] >= 100 THEN 3 ELSE IF m[Len(m)] >= 10 THEN 2 ELSE 1)

\* n1, d1, k with n1 / d1 = n / d * 10^k and 10^(P - 1) <= n1 / d1 < 10^P: the
\* digit counts of n and d give k or k - 1
DecScale(n, d, P) ==
    LET Fit(n1, d1, j, low) ==
            [n |-> IF low THEN MagShift(n1, 1) ELSE n1, d |-> d1,
             k |-> IF low THEN j + 1 ELSE j]
        Near(n1, d1, j) == Fit(n1, d1, j, MagCmp(n1, MagShift(d1, P - 1)) < 0)
        Jump(j) ==
            Near(IF j > 0 THEN MagShift(n, j) ELSE n,
                 IF j < 0 THEN MagShift(d, 0 - j) ELSE d, j)
    IN  Jump(P - 1 - (MagDigits(n) - MagDigits(d)))

RECURSIVE StripZeros(_)
\* a text without its trailing "0"s
StripZeros(t) ==
    IF t # <<>> /\ t[Len(t)] = "0" THEN StripZeros(SubSeq(t, 1, Len(t) - 1)) ELSE t

\* oss << std::setprecision(P) << value for a floating value: the %g form
FormatG(v, P) ==
    LET sgn == IF v.neg THEN <<"-">> ELSE <<>>
        Scientific(sig, X, aX) ==
            sgn \o <<sig[1]>>
            \o (IF Len(sig) > 1 THEN <<".">> \o SubSeq(sig, 2, Len(sig)) ELSE <<>>)
            \o <<"e", IF X < 0 THEN "-" ELSE "+">>
            \o (IF aX < 10 THEN <<"0">> ELSE <<>>) \o MagText(MagOfNat(aX))
        Fixed(ds, frac, X) ==
            sgn \o SubSeq(ds, 1, X + 1) \o (IF frac # <<>> THEN <<".">> \o frac ELSE <<>>)
        Digits(ds, X) ==
            IF X < -4 \/ X >= P THEN Scientific(StripZeros(ds), X, IF X < 0 THEN 0 - X ELSE X)
            ELSE IF X >= 0 THEN Fixed(ds, StripZeros(SubSeq(ds, X + 2, P)), X)
            ELSE sgn \o <<"0", ".">> \o [i \in 1..(0 - X - 1) |-> "0"] \o StripZeros(ds)
        Rounded(r0, k) ==
            IF Len(MagText(r0)) > P THEN Digits(MagText(MagShift(MagOne, P - 1)), P - k)
            ELSE Digits(MagText(r0), P - 1 - k)
        Scaled(sc) == Rounded(MagRoundDiv(sc.n, sc.d), sc.k)
    IN  IF LdIsZero(v) THEN (IF v.neg THEN <<"-", "0">> ELSE <<"0">>)
        ELSE Scaled(DecScale(v.num, v.den, P))

\* the mutation of valueToString without the cast to int64_t: an int8 is
\* written as the character of that code ("?" stands for the non-digits)
valueToStringAsChar(type, value) ==
    IF type = "Int8"
    THEN (IF ~value.neg /\ NatOfMag(value.num) \in 48..57
          THEN <<DigitChar(NatOfMag(value.num) - 48)>> ELSE <<"?">>)
    ELSE IF type \in IntTypes
    THEN (IF value.neg THEN <<"-">> ELSE <<>>) \o MagText(value.num)
    ELSE FormatG(value, TypePrecision[type])

\* Operand::valueToString
valueToString(type, value) ==
    IF type \in IntTypes
    THEN (IF value.neg THEN <<"-">> ELSE <<>>) \o MagText(value.num)
    ELSE FormatG(value, TypePrecision[type])

\* Operand::Operand(const std::string&), reached through
\* OperandFactory::createOperand: [err, op]
createOperand(type, text) ==
    LET none == [type |-> type, value |-> Ld(FALSE, <<>>, MagOne), str |-> <<>>]
        Made(value) ==
            [err |-> "none",
             op |-> [type |-> type, value |-> value, str |-> valueToString(type, value)]]
        Checked(tempValue, bounds) ==
            IF bounds # "none" THEN [err |-> bounds, op |-> none]
            ELSE Made(StaticCast(type, tempValue))
        Parsed(tempValue) ==
            IF ~tempValue.ok THEN [err |-> "LexicalException", op |-> none]
            ELSE Checked(tempValue.val, validateBounds(type, tempValue.val))
    IN  Parsed(Stold(text))

\* the mutation of the promotion rule that always keeps the left operand's type
resultTypeLeft(lhsType, rhsType) == lhsType

\* resultType = (getPrecision() >= rhs.getPrecision()) ? Type : rhs.getType()
resultType(lhsType, rhsType) ==
    IF getPrecision(lhsType) >= getPrecision(rhsType) THEN lhsType ELSE rhsType

Operators == {"add", "sub", "mul", "div", "mod"}

\* leftValue + rightValue, -, *, /, fmodl(leftValue, rightValue)
Arith(op, leftValue, rightValue) ==
    IF op = "mod" THEN LdFmod(leftValue, rightValue)
    ELSE LongDouble(CASE op = "add" -> LdAdd(leftValue, rightValue)
                      [] op = "sub" -> LdSub(leftValue, rightValue)
                      [] op = "mul" -> LdMul(leftValue, rightValue)
                      [] op = "div" -> LdDiv(leftValue, rightValue))

\* Operand::operator+ - * / %: [err, op]
OperandOp(op, lhs, rhs) ==
    LET leftValue == lhs.value
        Result(made) == IF made.err = "none" THEN made ELSE [err |-> made.err, op |-> lhs]
        Apply(rightValue) ==
            IF op \in {"div", "mod"} /\ LdIsZero(rightValue)
            THEN [err |-> "DivisionByZeroException", op |-> lhs]
            ELSE Result(createOperand(resultType(lhs.type, rhs.type),
                                      ToStringLd(Arith(op, leftValue, rightValue))))
    IN  Apply(Stold(rhs.str).val)


(***************************************************************************)
(* Lexer.  The stream is the text input; pos characters of it have been    *)
(* read.  currentChar is "NUL" for the '\0' the lexer holds at the end.    *)
(***************************************************************************)
Letters ==
    {"a", "b", "c", "d", "e", "f", "g", "h", "i", "j", "k", "l", "m", "n",
     "o", "p", "q", "r", "s", "t", "u", "v", "w", "x", "y", "z", "A",
     "B", "C", "D", "E", "F", "G", "H", "I", "J", "K", "L", "M", "N",
     "O", "P", "Q", "R", "S", "T", "U", "V", "W", "X", "Y", "Z"}

isalpha(c) == c \in Letters

isdigit(c) == IsDigit(c)

isalnum(c) == isalpha(c) \/ isdigit(c)

isspace(c) == c \in {" ", "\t", "\n", "\r"}

\* the element of a set of one element.  Only({F(x) : x \in {e}}) is F(e) with
\* e computed once, however often F uses its parameter
Only(S) == CHOOSE x \in S : TRUE

Token(type, value, line, column) ==
    [type |-> type, value |-> value, line |-> line, column |-> column]

\* Lexer::Lexer
Lexer(input, fromStdin, collectErrors) ==
    [input |-> input, pos |-> 0, fromStdin |-> fromStdin, line |-> 1, column |-> 1,
     currentChar |-> "NUL", endReached |-> FALSE, collectErrors |-> collectErrors,
     errors |-> <<>>]

\* Lexer::advance
LexerAdvance(L) ==
    IF L.endReached THEN L
    ELSE IF L.pos < Len(L.input)
    THEN LET c == L.input[L.pos + 1]
         IN  [L EXCEPT !.pos = @ + 1, !.currentChar = c,
                       !.line = IF c = "\n" THEN @ + 1 ELSE @,
                       !.column = IF c = "\n" THEN 1 ELSE @ + 1]
    ELSE [L EXCEPT !.endReached = TRUE, !.currentChar = "NUL"]

\* Lexer::peek
peek(L) ==
    IF L.endReached THEN "NUL"
    ELSE IF L.pos < Len(L.input) THEN L.input[L.pos + 1] ELSE "NUL"

RECURSIVE skipWhitespace(_)
\* Lexer::skipWhitespace
skipWhitespace(L) ==
    LET Loop(S) ==
            IF isspace(S.currentChar) /\ S.currentChar # "\n" /\ ~S.endReached
            THEN skipWhitespace(LexerAdvance(S))
            ELSE S
    IN  Only({Loop(S) : S \in {L}})

RECURSIVE skipComment(_)
\* Lexer::skipComment
skipComment(L) ==
    LET Loop(S) ==
            IF S.currentChar # "\n" /\ ~S.endReached THEN skipComment(LexerAdvance(S))
            ELSE S
    IN  Only({Loop(S) : S \in {L}})

\* the mutation of Lexer::keywordToTokenType that also reads PUSH as push
keywordToTokenTypeUpper(str) ==
    IF str \in {<<"p", "u", "s", "h">>, <<"P", "U", "S", "H">>} THEN "PUSH"
    ELSE IF str = <<"p", "o", "p">> THEN "POP"
    ELSE IF str = <<"d", "u", "m", "p">> THEN "DUMP"
    ELSE IF str = <<"a", "s", "s", "e", "r", "t">> THEN "ASSERT"
    ELSE IF str = <<"a", "d", "d">> THEN "ADD"
    ELSE IF str = <<"s", "u", "b">> THEN "SUB"
    ELSE IF str = <<"m", "u", "l">> THEN "MUL"
    ELSE IF str = <<"d", "i", "v">> THEN "DIV"
    ELSE IF str = <<"m", "o", "d">> THEN "MOD"
    ELSE IF str = <<"p", "r", "i", "n", "t">> THEN "PRINT"
    ELSE IF str = <<"e", "x", "i", "t">> THEN "EXIT"
    ELSE IF str = <<"i", "n", "t", "8">> THEN "INT8"
    ELSE IF str = <<"i", "n", "t", "1", "6">> THEN "INT16"
    ELSE IF str = <<"i", "n", "t", "3", "2">> THEN "INT32"
    ELSE IF str = <<"f", "l", "o", "a", "t">> THEN "FLOAT"
    ELSE IF str = <<"d", "o", "u", "b", "l", "e">> THEN "DOUBLE"
    ELSE "UNKNOWN"

\* Lexer::keywordToTokenType
keywordToTokenType(str) ==
    IF str = <<"p", "u", "s", "h">> THEN "PUSH"
    ELSE IF str = <<"p", "o", "p">> THEN "POP"
    ELSE IF str = <<"d", "u", "m", "p">> THEN "DUMP"
    ELSE IF str = <<"a", "s", "s", "e", "r", "t">> THEN "ASSERT"
    ELSE IF str = <<"a", "d", "d">> THEN "ADD"
    ELSE IF str = <<"s", "u", "b">> THEN "SUB"
    ELSE IF str = <<"m", "u", "l">> THEN "MUL"
    ELSE IF str = <<"d", "i", "v">> THEN "DIV"
    ELSE IF str = <<"m", "o", "d">> THEN "MOD"
    ELSE IF str = <<"p", "r", "i", "n", "t">> THEN "PRINT"
    ELSE IF str = <<"e", "x", "i", "t">> THEN "EXIT"
    ELSE IF str = <<"i", "n", "t", "8">> THEN "INT8"
    ELSE IF str = <<"i", "n", "t", "1", "6">> THEN "INT16"
    ELSE IF str = <<"i", "n", "t", "3", "2">> THEN "INT32"
    ELSE IF str = <<"f", "l", "o", "a", "t">> THEN "FLOAT"
    ELSE IF str = <<"d", "o", "u", "b", "l", "e">> THEN "DOUBLE"
    ELSE "UNKNOWN"

RECURSIVE readAlnum(_, _)
\* while (isIdentifierChar(_currentChar) && !_endReached) { value += ...; advance(); }
readAlnum(L, value) ==
    LET Loop(S, c) ==
            IF isalnum(c) /\ ~S.endReached
            THEN readAlnum(LexerAdvance(S), Append(value, c))
            ELSE [L |-> S, value |-> value]
    IN  Only({Loop(S, S.currentChar) : S \in {L}})

\* Lexer::readIdentifier: the lexer after it and the token
readIdentifier(L) ==
    LET Read(r) ==
            [L |-> r.L, thrown |-> FALSE,
             tok |-> Token(keywordToTokenType(r.value), r.value, r.L.line, L.column)]
    IN  Read(readAlnum(L, <<>>))

RECURSIVE readDigits(_, _)
\* while (std::isdigit(_currentChar) && !_endReached) { value += ...; advance(); }
readDigits(L, value) ==
    IF isdigit(L.currentChar) /\ ~L.endReached
    THEN readDigits(LexerAdvance(L), Append(value, L.currentChar))
    ELSE [L |-> L, value |-> value]

\* Lexer::readNumber
readNumber(L) ==
    LET signed == L.currentChar \in {"-", "+"}
        Read(r, isDecimal) ==
            [L |-> r.L, thrown |-> FALSE,
             tok |-> Token(IF isDecimal THEN "DECIMAL" ELSE "INTEGER", r.value,
                           r.L.line, L.column)]
        Fraction(r) ==
            IF r.L.currentChar = "."
            THEN Read(readDigits(LexerAdvance(r.L), Append(r.value, ".")), TRUE)
            ELSE Read(r, FALSE)
    IN  Fraction(readDigits(IF signed THEN LexerAdvance(L) ELSE L,
                            IF signed THEN <<L.currentChar>> ELSE <<>>))

\* the mutation of Lexer::skipToRecoverableState that skips the character alone
skipToRecoverableStateOne(L) == LexerAdvance(L)

\* the mutation of Lexer::skipToRecoverableState that skips nothing
skipToRecoverableStateStay(L) == L

\* Lexer::skipToRecoverableState
skipToRecoverableState(L) ==
    LET Skipped(S) == IF S.currentChar = "\n" THEN LexerAdvance(S) ELSE S
    IN  Skipped(skipComment(L))

\* Lexer::nextToken: the lexer after it, the token, and whether it threw
\* LexicalException
nextToken(L0) ==
    LET Scan(L) ==
            LET c == L.currentChar
                \* the token made once the lexer has moved on to A
                made(A, type, value) ==
                    [L |-> A, thrown |-> FALSE, tok |-> Token(type, value, A.line, L.column)]
                one(type, value) == made(LexerAdvance(L), type, value)
            IN  IF L.endReached
                THEN [L |-> L, thrown |-> FALSE,
                      tok |-> Token("END_FILE", <<>>, L.line, L.column)]
                ELSE IF L.fromStdin /\ c = ";" /\ peek(L) = ";"
                THEN made(LexerAdvance(LexerAdvance(L)), "END_INPUT", <<";", ";">>)
                ELSE IF c = ";" THEN made(skipComment(L), "COMMENT", <<";">>)
                ELSE IF c = "\n" THEN one("NEWLINE", <<"\\", "n">>)
                ELSE IF c = "(" THEN one("LPAREN", <<"(">>)
                ELSE IF c = ")" THEN one("RPAREN", <<")">>)
                ELSE IF isdigit(c) \/ (c = "-" /\ isdigit(peek(L)))
                        \/ (c = "+" /\ isdigit(peek(L)))
                THEN readNumber(L)
                ELSE IF isalpha(c) THEN readIdentifier(L)
                ELSE IF L.collectErrors
                THEN made(skipToRecoverableState(
                              [L EXCEPT !.errors =
                                  Append(@, [what |-> "Unexpected character", char |-> c,
                                             line |-> L.line, column |-> L.column])]),
                          "UNKNOWN", <<c>>)
                ELSE [L |-> LexerAdvance(L), thrown |-> TRUE,
                      tok |-> Token("UNKNOWN", <<c>>, L.line, L.column)]
    IN  Only({Scan(L) : L \in {skipWhitespace(L0)}})

RECURSIVE tokenizeLoopPast(_, _)
\* the mutation of the loop of Lexer::tokenize that stops at END_FILE alone
tokenizeLoopPast(L, tokens) ==
    LET Step(r) ==
            IF r.thrown THEN [L |-> r.L, thrown |-> TRUE, tokens |-> <<>>]
            ELSE IF r.tok.type = "END_FILE"
            THEN [L |-> r.L, thrown |-> FALSE, tokens |-> Append(tokens, r.tok)]
            ELSE tokenizeLoopPast(r.L, IF r.tok.type # "COMMENT" THEN Append(tokens, r.tok)
                                        ELSE tokens)
    IN  Step(nextToken(L))

RECURSIVE tokenizeLoopKeep(_, _)
\* the mutation of the loop of Lexer::tokenize that keeps the COMMENT tokens
tokenizeLoopKeep(L, tokens) ==
    LET Step(r) ==
            IF r.thrown THEN [L |-> r.L, thrown |-> TRUE, tokens |-> <<>>]
            ELSE IF r.tok.type \in {"END_FILE", "END_INPUT"}
            THEN [L |-> r.L, thrown |-> FALSE, tokens |-> Append(tokens, r.tok)]
            ELSE tokenizeLoopKeep(r.L, Append(tokens, r.tok))
    IN  Step(nextToken(L))

RECURSIVE tokenizeLoop(_, _)
\* the while loop of Lexer::tokenize
tokenizeLoop(L, tokens) ==
    LET Step(r) ==
            IF r.thrown THEN [L |-> r.L, thrown |-> TRUE, tokens |-> <<>>]
            ELSE IF r.tok.type \in {"END_FILE", "END_INPUT"}
            THEN [L |-> r.L, thrown |-> FALSE, tokens |-> Append(tokens, r.tok)]
            ELSE tokenizeLoop(r.L, IF r.tok.type # "COMMENT" THEN Append(tokens, r.tok)
                                    ELSE tokens)
    IN  Only({Step(r) : r \in {nextToken(L)}})

\* Lexer::tokenize: [L, thrown, tokens]
tokenize(L) == tokenizeLoop(LexerAdvance(L), <<>>)


(***************************************************************************)
(* Parser.  A parser is [tokens, currentIndex, collectErrors, errors,      *)
(* hasExitInstruction] and, for the model, the commands built so far, the  *)
(* SyntaxException in flight (thrown) and the operands allocated (each     *)
(* operand the factory makes gets the next identity).  A command is        *)
(* [kind, operand]; operand is NoOperand where the command owns none.      *)
(***************************************************************************)
NoOperand == [id |-> 0, type |-> "none", value |-> Ld(FALSE, <<>>, MagOne), str |-> <<>>]

Command(kind, operand) == [kind |-> kind, operand |-> operand]

NoCommand == Command("none", NoOperand)

\* Parser::Parser
Parser(tokens, collectErrors, firstId) ==
    [tokens |-> tokens, currentIndex |-> 0, collectErrors |-> collectErrors,
     errors |-> <<>>, hasExitInstruction |-> FALSE,
     commands |-> <<>>, thrown |-> FALSE, nextId |-> firstId]

\* Parser::currentToken
currentToken(P) ==
    IF P.currentIndex >= Len(P.tokens) THEN Token("END_FILE", <<>>, 0, 0)
    ELSE P.tokens[P.currentIndex + 1]

\* Parser::advance
ParserAdvance(P) ==
    IF P.currentIndex < Len(P.tokens) THEN [P EXCEPT !.currentIndex = @ + 1] ELSE P

RECURSIVE skipToNewline(_)
\* the recovery loop of Parser::error
skipToNewline(P) ==
    LET Loop(Q) ==
            IF currentToken(Q).type \notin {"NEWLINE", "END_FILE", "END_INPUT"}
            THEN skipToNewline(ParserAdvance(Q))
            ELSE Q
    IN  Only({Loop(Q) : Q \in {P}})

\* the mutation of Parser::error that recovers in collection mode without
\* logging the message
errorUnlogged(P, message) ==
    LET Recovered(R) == IF currentToken(R).type = "NEWLINE" THEN ParserAdvance(R) ELSE R
    IN  IF P.collectErrors THEN Recovered(skipToNewline(P))
        ELSE [P EXCEPT !.thrown = TRUE, !.errors = Append(@, message)]

\* the mutation of Parser::error that logs and recovers in fail-fast mode too
errorRecover(P, message) ==
    LET Recovered(R) == IF currentToken(R).type = "NEWLINE" THEN ParserAdvance(R) ELSE R
    IN  Recovered(skipToNewline([P EXCEPT !.errors = Append(@, message)]))

\* the mutation of Parser::error that logs the message and skips nothing
errorStay(P, message) ==
    IF P.collectErrors THEN [P EXCEPT !.errors = Append(@, message)]
    ELSE [P EXCEPT !.thrown = TRUE, !.errors = Append(@, message)]

\* Parser::error
error(P, message) ==
    LET Recovered(R) == IF currentToken(R).type = "NEWLINE" THEN ParserAdvance(R) ELSE R
    IN  IF P.collectErrors
        THEN Recovered(skipToNewline([P EXCEPT !.errors = Append(@, message)]))
        ELSE [P EXCEPT !.thrown = TRUE, !.errors = Append(@, message)]

RECURSIVE skipNewlines(_)
\* Parser::skipNewlines
skipNewlines(P) ==
    LET Loop(Q) ==
            IF currentToken(Q).type = "NEWLINE" THEN skipNewlines(ParserAdvance(Q)) ELSE Q
    IN  Only({Loop(Q) : Q \in {P}})

Message(msg, line) == [msg |-> msg, line |-> line]

\* the mutation of Parser::expect that takes whatever token comes
expectAny(P, type) == [P |-> ParserAdvance(P), ok |-> TRUE]

\* Parser::expect: [P, ok]
expect(P, type) ==
    IF currentToken(P).type # type
    THEN [P |-> error(P, Message("Expected " \o type, currentToken(P).line)), ok |-> FALSE]
    ELSE [P |-> ParserAdvance(P), ok |-> TRUE]

TypeOfToken(t) ==
    CASE t = "INT8" -> "Int8"
      [] t = "INT16" -> "Int16"
      [] t = "INT32" -> "Int32"
      [] t = "FLOAT" -> "Float"
      [] t = "DOUBLE" -> "Double"

\* Parser::parseValue: [P, operand]; operand is NoOperand for nullptr
parseValue(P) ==
    LET typeToken == currentToken(P).type
        Created(Q, made) ==
            IF made.err # "none"
            THEN [P |-> error(Q, Message("Failed to create operand: " \o made.err, 0)),
                  operand |-> NoOperand]
            ELSE [P |-> [Q EXCEPT !.nextId = @ + 1],
                  operand |-> [id |-> Q.nextId, type |-> made.op.type,
                               value |-> made.op.value, str |-> made.op.str]]
        Closed(closed, valueStr) ==
            IF ~closed.ok THEN [P |-> closed.P, operand |-> NoOperand]
            ELSE Created(closed.P, createOperand(TypeOfToken(typeToken), valueStr))
        Value(P2, paren) ==
            IF currentToken(P2).type \notin {"INTEGER", "DECIMAL"}
            THEN [P |-> error(P2, Message(IF paren THEN "Expected numeric value"
                                          ELSE "Expected '(' or numeric value after type",
                                          currentToken(P2).line)),
                  operand |-> NoOperand]
            ELSE Closed(IF paren THEN expect(ParserAdvance(P2), "RPAREN")
                        ELSE [P |-> ParserAdvance(P2), ok |-> TRUE],
                        currentToken(P2).value)
        Opened(P1, paren) == Value(IF paren THEN ParserAdvance(P1) ELSE P1, paren)
        Typed(P1) == Opened(P1, currentToken(P1).type = "LPAREN")
    IN  IF typeToken \notin {"INT8", "INT16", "INT32", "FLOAT", "DOUBLE"}
        THEN [P |-> error(P, Message("Expected operand type", currentToken(P).line)),
              operand |-> NoOperand]
        ELSE Typed(ParserAdvance(P))

\* Parser::parsePush and Parser::parseAssert: [P, command]
parseOperandInstruction(P, kind) ==
    LET Made(r) ==
            IF r.operand = NoOperand THEN [P |-> r.P, command |-> NoCommand]
            ELSE [P |-> r.P, command |-> Command(kind, r.operand)]
    IN  Made(parseValue(ParserAdvance(P)))

SimpleKind(type) ==
    CASE type = "POP" -> "pop"
      [] type = "DUMP" -> "dump"
      [] type = "ADD" -> "add"
      [] type = "SUB" -> "sub"
      [] type = "MUL" -> "mul"
      [] type = "DIV" -> "div"
      [] type = "MOD" -> "mod"
      [] type = "PRINT" -> "print"
      [] type = "EXIT" -> "exit"

\* Parser::parseSimpleInstruction
parseSimpleInstruction(P, type) ==
    LET Made(A) ==
            [P |-> IF type = "EXIT" THEN [A EXCEPT !.hasExitInstruction = TRUE] ELSE A,
             command |-> Command(SimpleKind(type), NoOperand)]
    IN  Made(ParserAdvance(P))

\* Parser::parseInstruction: [P, command]; command is NoCommand for nullptr
parseInstruction(P) ==
    LET instrType == currentToken(P).type
    IN  IF instrType \in {"PUSH", "ASSERT"}
        THEN parseOperandInstruction(P, IF instrType = "PUSH" THEN "push" ELSE "assert")
        ELSE IF instrType \in {"POP", "DUMP", "ADD", "SUB", "MUL", "DIV", "MOD",
                               "PRINT", "EXIT"}
        THEN parseSimpleInstruction(P, instrType)
        ELSE [P |-> error(P, Message("Unknown instruction", currentToken(P).line)),
              command |-> NoCommand]

RECURSIVE parseLoopReversed(_)
\* the mutation of the loop of Parser::parse that puts each command before the
\* commands parsed so far
parseLoopReversed(P) ==
    LET Continue(Q) == IF Q.thrown THEN Q ELSE parseLoopReversed(skipNewlines(Q))
        Added(r) ==
            Continue(IF r.command # NoCommand
                     THEN [r.P EXCEPT !.commands = <<r.command>> \o @]
                     ELSE r.P)
    IN  IF P.thrown \/ currentToken(P).type \in {"END_FILE", "END_INPUT"} THEN P
        ELSE Added(parseInstruction(P))

RECURSIVE parseLoop(_)
\* the while loop of Parser::parse
parseLoop(P) ==
    LET Continue(Q) == IF Q.thrown THEN Q ELSE parseLoop(skipNewlines(Q))
        Added(r) ==
            Continue(IF r.command # NoCommand
                     THEN [r.P EXCEPT !.commands = Append(@, r.command)]
                     ELSE r.P)
        Loop(Q) ==
            IF Q.thrown \/ currentToken(Q).type \in {"END_FILE", "END_INPUT"} THEN Q
            ELSE Only({Added(r) : r \in {parseInstruction(Q)}})
    IN  Only({Loop(Q) : Q \in {P}})

MissingExitMessage == Message("Program must end with 'exit' instruction", 0)

\* the mutation of the parser's final check that accepts a program without exit
exitCheckNone(P) == P

\* the check at the end of Parser::parse that an exit instruction was found
exitCheck(P) ==
    IF ~P.hasExitInstruction /\ ~P.collectErrors
    THEN [P EXCEPT !.thrown = TRUE, !.errors = Append(@, MissingExitMessage)]
    ELSE IF ~P.hasExitInstruction /\ P.collectErrors
    THEN [P EXCEPT !.errors = Append(@, MissingExitMessage)]
    ELSE P

\* the mutation of Parser::parse that checks for exit before it parses
parseCheckFirst(P) ==
    LET Checked(Q) == IF Q.thrown THEN Q ELSE parseLoop(skipNewlines(Q))
    IN  Checked(exitCheck(P))

\* Parser::parse: the parser after it; its commands are the result, and thrown
\* says that a SyntaxException left it (the last of errors is its message)
parse(P) ==
    LET Checked(Q) == IF Q.thrown THEN Q ELSE exitCheck(Q)
    IN  Checked(parseLoop(skipNewlines(P)))

\* the mutation of Parser::hasErrors that reports none
hasErrorsNever(P) == FALSE

\* Parser::hasErrors
hasErrors(P) == P.errors # <<>>


(***************************************************************************)
(* Command set.  A command executes in a context X: the VM's stack (top    *)
(* last), std::cout as character codes, the heap's count of deletes per    *)
(* operand identity, the operand the command owns, and the exception       *)
(* thrown ("none" if none).                                                *)
(***************************************************************************)
Context(stack, cout, deletes, operand) ==
    [stack |-> stack, cout |-> cout, deletes |-> deletes, operand |-> operand,
     thrown |-> "none"]

Throw(X, exception) == [X EXCEPT !.thrown = exception]

\* delete of an operand; delete of nullptr does nothing
Delete(deletes, operand) ==
    IF operand = NoOperand THEN deletes ELSE [deletes EXCEPT ![operand.id] = @ + 1]

\* the code of a character that operand texts are made of, and of '\n'
CharCode(c) ==
    CASE c = "\n" -> 10
      [] c = "+" -> 43
      [] c = "-" -> 45
      [] c = "." -> 46
      [] c = "e" -> 101
      [] IsDigit(c) -> 48 + DigitVal(c)

\* std::cout << text << std::endl
WriteLine(cout, text) == cout \o [i \in 1..Len(text) |-> CharCode(text[i])] \o <<CharCode("\n")>>

\* std::stoi of an integer operand's text
stoi(text) ==
    IF text[1] = "-" THEN 0 - NatOfMag(TextMag(Tail(text))) ELSE NatOfMag(TextMag(text))

Top(stack) == stack[Len(stack)]

Pop(stack) == SubSeq(stack, 1, Len(stack) - 1)

\* PushCommand::execute
PushCommandExecute(X) == [X EXCEPT !.stack = Append(@, X.operand), !.operand = NoOperand]

\* the mutation of pop that deletes the top operand and leaves it on the stack
PopCommandExecuteKeep(X) ==
    IF X.stack = <<>> THEN Throw(X, "EmptyStackException")
    ELSE [X EXCEPT !.deletes = Delete(@, Top(X.stack))]

\* the mutation of pop that removes the top operand without deleting it
PopCommandExecuteLeak(X) ==
    IF X.stack = <<>> THEN Throw(X, "EmptyStackException")
    ELSE [X EXCEPT !.stack = Pop(@)]

\* PopCommand::execute
PopCommandExecute(X) ==
    IF X.stack = <<>> THEN Throw(X, "EmptyStackException")
    ELSE [X EXCEPT !.stack = Pop(@), !.deletes = Delete(@, Top(X.stack))]

RECURSIVE moveToTemp(_, _)
\* while (!stack.empty()) { temp.push(stack.top()); stack.pop(); }
moveToTemp(stack, temp) ==
    IF stack = <<>> THEN temp ELSE moveToTemp(Pop(stack), Append(temp, Top(stack)))

RECURSIVE printAndRestore(_, _, _)
\* while (!temp.empty()) { std::cout << temp.top()->toString() << std::endl; ... }
printAndRestore(temp, stack, cout) ==
    IF temp = <<>> THEN [stack |-> stack, cout |-> cout]
    ELSE printAndRestore(Pop(temp), Append(stack, Top(temp)), WriteLine(cout, Top(temp).str))

\* the mutation of dump that does not put the operands back
DumpCommandExecuteDrain(X) ==
    LET Dumped(r) == [X EXCEPT !.stack = <<>>, !.cout = r.cout]
    IN  Dumped(printAndRestore(moveToTemp(X.stack, <<>>), <<>>, X.cout))

\* DumpCommand::execute
DumpCommandExecute(X) ==
    LET Dumped(r) == [X EXCEPT !.stack = r.stack, !.cout = r.cout]
    IN  Dumped(printAndRestore(moveToTemp(X.stack, <<>>), <<>>, X.cout))

\* the mutation of assert that compares the texts alone
AssertCommandExecuteTextOnly(X) ==
    IF X.stack = <<>> THEN Throw(X, "EmptyStackException")
    ELSE IF Top(X.stack).str # X.operand.str THEN Throw(X, "AssertException")
    ELSE X

\* AssertCommand::execute
AssertCommandExecute(X) ==
    IF X.stack = <<>> THEN Throw(X, "EmptyStackException")
    ELSE IF Top(X.stack).type # X.operand.type THEN Throw(X, "AssertException")
    ELSE IF Top(X.stack).str # X.operand.str THEN Throw(X, "AssertException")
    ELSE X

\* the mutation of the binary commands that takes the top operand as the left-hand side
BinaryOperandsSwapped(stack) == [v1 |-> Top(stack), v2 |-> Top(Pop(stack))]

\* v2 = stack.top(); stack.pop(); v1 = stack.top(); stack.pop();
BinaryOperands(stack) == [v1 |-> Top(Pop(stack)), v2 |-> Top(stack)]

\* the binary commands once the stack holds two operands: pop v2 and v1,
\* result = *v1 OP *v2, delete v1, delete v2, push result
BinaryApply(X, op) ==
    LET id == Len(X.deletes) + 1
        Applied(v, rest, result) ==
            IF result.err # "none"
            THEN [X EXCEPT !.stack = rest, !.thrown = result.err]
            ELSE [X EXCEPT
                    !.stack = Append(rest, [id |-> id, type |-> result.op.type,
                                            value |-> result.op.value,
                                            str |-> result.op.str]),
                    !.deletes = Delete(Delete(Append(@, 0), v.v1), v.v2)]
        Popped(v) == Applied(v, Pop(Pop(X.stack)), OperandOp(op, v.v1, v.v2))
    IN  Popped(BinaryOperands(X.stack))

\* the mutation of the binary commands that fails as the one-operand commands
\* do on a stack with too few operands
BinaryCommandExecuteEmptyStack(X, op) ==
    IF Len(X.stack) < 2 THEN Throw(X, "EmptyStackException")
    ELSE BinaryApply(X, op)

\* AddCommand::execute, SubCommand::execute, MulCommand::execute,
\* DivCommand::execute, ModCommand::execute: one body, with the operator op
BinaryCommandExecute(X, op) ==
    IF Len(X.stack) < 2 THEN Throw(X, "InsufficientValuesException")
    ELSE BinaryApply(X, op)

\* the mutation of print that writes the character alone
PrintWriteBare(cout, value) == Append(cout, value)

\* std::cout << static_cast<char>(value) << std::endl
PrintWrite(cout, value) == Append(Append(cout, value), CharCode("\n"))

\* the mutation of print that accepts an operand of any integer type
PrintCommandExecuteAnyInt(X) ==
    IF X.stack = <<>> THEN Throw(X, "EmptyStackException")
    ELSE IF Top(X.stack).type \notin IntTypes THEN Throw(X, "AssertException")
    ELSE [X EXCEPT !.cout = PrintWrite(@, stoi(Top(X.stack).str))]

\* PrintCommand::execute
PrintCommandExecute(X) ==
    IF X.stack = <<>> THEN Throw(X, "EmptyStackException")
    ELSE IF Top(X.stack).type # "Int8" THEN Throw(X, "AssertException")
    ELSE [X EXCEPT !.cout = PrintWrite(@, stoi(Top(X.stack).str))]

\* ExitCommand::execute
ExitCommandExecute(X) == X

\* command->execute(_stack)
Execute(kind, X) ==
    CASE kind = "push" -> PushCommandExecute(X)
      [] kind = "pop" -> PopCommandExecute(X)
      [] kind = "dump" -> DumpCommandExecute(X)
      [] kind = "assert" -> AssertCommandExecute(X)
      [] kind \in Operators -> BinaryCommandExecute(X, kind)
      [] kind = "print" -> PrintCommandExecute(X)
      [] kind = "exit" -> ExitCommandExecute(X)

RECURSIVE destroyCommands(_, _, _)
\* the destructors of the commands of a vector: ~PushCommand deletes the operand
\* it still owns, ~AssertCommand deletes _expected
destroyCommands(commands, i, deletes) ==
    IF i > Len(commands) THEN deletes
    ELSE destroyCommands(commands, i + 1, Delete(deletes, commands[i].operand))

RECURSIVE cleanupStack(_, _)
\* VirtualMachine::cleanupStack: the deletes after it (the stack is then empty)
cleanupStack(stack, deletes) ==
    IF stack = <<>> THEN deletes
    ELSE cleanupStack(Pop(stack), Delete(deletes, Top(stack)))

(***************************************************************************)
(* Virtual machine: one run of VirtualMachine::run on a program text.      *)
(***************************************************************************)
\* the most lines a program text has
MaxLines == 4

\* the lines the program texts of Spec are made of
Lines ==
    {<<"p", "u", "s", "h", " ", "i", "n", "t", "8", "(", "1", "0", "0", ")">>,
     <<"p", "u", "s", "h", " ", "i", "n", "t", "3", "2", "(", "4", "2", ")">>,
     <<"p", "o", "p">>,
     <<"a", "d", "d">>,
     <<"d", "u", "m", "p">>,
     <<"e", "x", "i", "t">>,
     <<"p", "i", "s", "h">>,
     <<"@">>}

RECURSIVE Text(_)
\* the text of a program: its lines, each ended by '\n'
Text(program) ==
    IF program = <<>> THEN <<>>
    ELSE Head(program) \o <<"\n">> \o Text(Tail(program))

Programs == UNION {[1..n -> Lines] : n \in 0..MaxLines}

VARIABLES
    program,        \* the lines of the input stream
    fromStdin,      \* the fromStdin argument of run
    runs,           \* history: which call of run on this machine this is
    collectErrors,  \* VirtualMachine::_collectErrors
    pc,             \* the position in run: start, lexed, exec, validate, cleanup,
                    \* returned (run returned), raised (an exception left run)
    tokens,         \* the result of lexer.tokenize()
    lexErrors,      \* Lexer::_errors
    parseErrors,    \* Parser::_errors
    commands,       \* the commands vector of run
    ip,             \* the position of the for loop of executeCommands
    stack,          \* VirtualMachine::_stack, top last
    exitCalled,     \* VirtualMachine::_exitCalled
    cout,           \* std::cout, as character codes
    cerr,           \* std::cerr, one entry per "Error: ..." line
    raised,         \* the exception that left run, "none" if none
    deletes,        \* per operand identity, how many times it was deleted
    executed,       \* history: the commands executed, in order: [ip, kind, thrown]
    everOnStack,    \* history: the identities of the operands that were on the stack
    last,           \* history: the last command executed and the state before it
    created         \* a direct call of OperandFactory::createOperand: its arguments
                    \* and, once done, its outcome

vars == <<program, fromStdin, runs, collectErrors, pc, tokens, lexErrors, parseErrors, commands, ip,
          stack, exitCalled, cout, cerr, raised, deletes, executed, everOnStack, last,
          created>>

input == Text(program)

NoLast == [kind |-> "none", operand |-> NoOperand, stack |-> <<>>, cout |-> <<>>,
           deletes |-> <<>>, thrown |-> "none"]

\* no call of the factory
NoCreated ==
    [type |-> "none", text |-> <<>>, done |-> FALSE, err |-> "none",
     op |-> [type |-> "none", value |-> Ld(FALSE, <<>>, MagOne), str |-> <<>>],
     again |-> [done |-> FALSE, err |-> "none",
                op |-> [type |-> "none", value |-> Ld(FALSE, <<>>, MagOne), str |-> <<>>]]]

\* VirtualMachine::VirtualMachine: the machine before run is called
Constructed ==
    /\ runs = 1
    /\ pc = "start"
    /\ tokens = <<>>
    /\ lexErrors = <<>>
    /\ parseErrors = <<>>
    /\ commands = <<>>
    /\ ip = 1
    /\ stack = <<>>
    /\ exitCalled = FALSE
    /\ cout = <<>>
    /\ cerr = <<>>
    /\ raised = "none"
    /\ deletes = <<>>
    /\ executed = <<>>
    /\ everOnStack = {}
    /\ last = NoLast

\* a constructed machine and the stream run is given by runFile: one of programs
Start(programs) ==
    /\ program \in programs
    /\ fromStdin = FALSE
    /\ collectErrors \in BOOLEAN
    /\ created = NoCreated
    /\ Constructed

Init == Start(Programs)

\* run: Lexer lexer(input, fromStdin, _collectErrors); lexer.tokenize()
Lex ==
    /\ pc = "start"
    /\ LET Lexed(r) ==
               /\ tokens' = r.tokens
               /\ lexErrors' = r.L.errors
               /\ pc' = IF r.thrown THEN "raised" ELSE "lexed"
               /\ raised' = IF r.thrown THEN "LexicalException" ELSE "none"
       IN  \E r \in {tokenize(Lexer(input, fromStdin, collectErrors))} : Lexed(r)
    /\ UNCHANGED <<program, fromStdin, runs, collectErrors, parseErrors, commands, ip, stack, exitCalled,
                   cout, cerr, deletes, executed, everOnStack, last, created>>

\* run: Parser parser(tokens, _collectErrors, this); commands = parser.parse();
\* the report of the collected errors and the return
Parse ==
    /\ pc = "lexed"
    /\ LET Parsed(P, allocated) ==
               /\ parseErrors' = P.errors
               /\ IF P.thrown
                  THEN /\ pc' = "raised"
                       /\ raised' = "SyntaxException"
                       /\ commands' = <<>>
                       /\ deletes' = destroyCommands(P.commands, 1, allocated)
                       /\ cerr' = cerr
                  ELSE IF collectErrors /\ hasErrors(P)
                  THEN /\ pc' = "returned"
                       /\ raised' = "none"
                       /\ commands' = <<>>
                       /\ deletes' = destroyCommands(P.commands, 1, allocated)
                       /\ cerr' = cerr \o P.errors
                  ELSE /\ pc' = IF P.commands = <<>> THEN "validate" ELSE "exec"
                       /\ raised' = "none"
                       /\ commands' = P.commands
                       /\ deletes' = allocated
                       /\ cerr' = cerr
           Allocated(P) ==
               Parsed(P, deletes \o [i \in 1..(P.nextId - 1 - Len(deletes)) |-> 0])
       IN  \E P \in {parse(Parser(tokens, collectErrors, Len(deletes) + 1))} : Allocated(P)
    /\ UNCHANGED <<program, fromStdin, runs, collectErrors, tokens, lexErrors, ip, stack, exitCalled,
                   cout, executed, everOnStack, last, created>>

\* the mutation of the catch clause that rethrows in both modes
CatchRethrow(exception, cmds, dels) ==
    /\ pc' = "raised"
    /\ raised' = exception
    /\ cerr' = cerr
    /\ commands' = <<>>
    /\ deletes' = destroyCommands(cmds, 1, dels)

\* the catch clause of run: rethrown in fail-fast mode (the commands vector is
\* destroyed as the exception leaves run), reported in collection mode
Catch(exception, cmds, dels) ==
    IF ~collectErrors
    THEN /\ pc' = "raised"
         /\ raised' = exception
         /\ cerr' = cerr
         /\ commands' = <<>>
         /\ deletes' = destroyCommands(cmds, 1, dels)
    ELSE /\ pc' = "cleanup"
         /\ raised' = "none"
         /\ cerr' = Append(cerr, Message(exception, 0))
         /\ commands' = cmds
         /\ deletes' = dels

\* one turn of the for loop of VirtualMachine::executeCommands
Exec ==
    /\ pc = "exec"
    /\ ip <= Len(commands)
    /\ LET Executed(cmd, X) ==
               /\ stack' = X.stack
               /\ cout' = X.cout
               /\ executed' = Append(executed, [ip |-> ip, kind |-> cmd.kind,
                                                 thrown |-> X.thrown])
               /\ everOnStack' = everOnStack \cup {X.stack[i].id : i \in 1..Len(X.stack)}
               /\ last' = [kind |-> cmd.kind, operand |-> cmd.operand, stack |-> stack,
                           cout |-> cout, deletes |-> deletes, thrown |-> X.thrown]
               /\ IF X.thrown # "none"
                  THEN /\ Catch(X.thrown, [commands EXCEPT ![ip].operand = X.operand],
                                X.deletes)
                       /\ ip' = ip
                  ELSE /\ commands' = [commands EXCEPT ![ip].operand = X.operand]
                       /\ deletes' = X.deletes
                       /\ ip' = ip + 1
                       /\ pc' = IF exitCalled \/ ip + 1 > Len(commands) THEN "validate"
                                ELSE "exec"
                       /\ UNCHANGED <<raised, cerr>>
           Fetched(cmd) ==
               Executed(cmd, Execute(cmd.kind, Context(stack, cout, deletes, cmd.operand)))
       IN  Fetched(commands[ip])
    /\ UNCHANGED <<program, fromStdin, runs, collectErrors, tokens, lexErrors, parseErrors, exitCalled,
                   created>>

\* VirtualMachine::validateExit, called by run after executeCommands
validateExit ==
    /\ pc = "validate"
    /\ IF ~exitCalled
       THEN Catch("AbstractVMException", commands, deletes)
       ELSE /\ pc' = "cleanup"
            /\ UNCHANGED <<raised, cerr, commands, deletes>>
    /\ UNCHANGED <<program, fromStdin, runs, collectErrors, tokens, lexErrors, parseErrors, ip, stack,
                   exitCalled, cout, executed, everOnStack, last, created>>

\* the cleanupStack() that ends run, and the return
Cleanup ==
    /\ pc = "cleanup"
    /\ pc' = "returned"
    /\ stack' = <<>>
    /\ deletes' = destroyCommands(commands, 1, cleanupStack(stack, deletes))
    /\ commands' = <<>>
    /\ UNCHANGED <<program, fromStdin, runs, collectErrors, tokens, lexErrors, parseErrors, ip,
                   exitCalled, cout, cerr, raised, executed, everOnStack, last, created>>

Next == Lex \/ Parse \/ Exec \/ validateExit \/ Cleanup

Spec == Init /\ [][Next]_vars

(***************************************************************************)
(* Programs that bring one command to a stack of chosen operands, and      *)
(* programs that bring one arithmetic command to a pair of operands.       *)
(***************************************************************************)
\* the deepest stack the programs of SpecCmd build before their command
MaxDepth == 3

\* the keyword of an operand type, as Lexer::keywordToTokenType reads it
TypeName(type) ==
    CASE type = "Int8" -> <<"i", "n", "t", "8">>
      [] type = "Int16" -> <<"i", "n", "t", "1", "6">>
      [] type = "Int32" -> <<"i", "n", "t", "3", "2">>
      [] type = "Float" -> <<"f", "l", "o", "a", "t">>
      [] type = "Double" -> <<"d", "o", "u", "b", "l", "e">>

\* the line "push type(text)"
PushLine(o) ==
    <<"p", "u", "s", "h", " ">> \o TypeName(o.type) \o <<"(">> \o o.text \o <<")">>

\* the line "assert type(text)"
AssertLine(o) ==
    <<"a", "s", "s", "e", "r", "t", " ">> \o TypeName(o.type) \o <<"(">> \o o.text \o <<")">>

\* the lines of the instructions that take no value
SimpleLines ==
    {<<"p", "o", "p">>,
     <<"d", "u", "m", "p">>,
     <<"a", "d", "d">>,
     <<"s", "u", "b">>,
     <<"m", "u", "l">>,
     <<"d", "i", "v">>,
     <<"m", "o", "d">>,
     <<"p", "r", "i", "n", "t">>,
     <<"e", "x", "i", "t">>}

\* the lines of the five arithmetic instructions
ArithLines ==
    {<<"a", "d", "d">>,
     <<"s", "u", "b">>,
     <<"m", "u", "l">>,
     <<"d", "i", "v">>,
     <<"m", "o", "d">>}

\* the operands of the programs of SpecCmd
CmdOperands ==
    {[type |-> "Int8", text |-> <<"6", "5">>],
     [type |-> "Int32", text |-> <<"4", "2">>],
     [type |-> "Float", text |-> <<"0", ".", "5">>]}

\* the operands of the programs of SpecArith
ArithOperands ==
    {[type |-> "Int8", text |-> <<"-", "1", "2", "8">>],
     [type |-> "Int8", text |-> <<"-", "1">>],
     [type |-> "Int8", text |-> <<"0">>],
     [type |-> "Int8", text |-> <<"2">>],
     [type |-> "Int8", text |-> <<"5", "0">>],
     [type |-> "Int8", text |-> <<"1", "0", "0">>],
     [type |-> "Int8", text |-> <<"1", "2", "7">>],
     [type |-> "Int16", text |-> <<"-", "3", "2", "7", "6", "8">>],
     [type |-> "Int16", text |-> <<"-", "1">>],
     [type |-> "Int16", text |-> <<"3">>],
     [type |-> "Int16", text |-> <<"3", "2", "7", "6", "7">>],
     [type |-> "Int32", text |-> <<"-", "2", "1", "4", "7", "4", "8", "3", "6", "4", "8">>],
     [type |-> "Int32", text |-> <<"-", "1">>],
     [type |-> "Int32", text |-> <<"7">>],
     [type |-> "Int32", text |-> <<"2", "1", "4", "7", "4", "8", "3", "6", "4", "7">>],
     [type |-> "Float", text |-> <<"0", ".", "5">>],
     [type |-> "Float", text |-> <<"-", "2", ".", "5">>],
     [type |-> "Double", text |-> <<"0", ".", "1">>]}

\* operands of one value in every type, and a character code in Int16
TopOperands ==
    {[type |-> "Int8", text |-> <<"4", "2">>],
     [type |-> "Int16", text |-> <<"6", "5">>],
     [type |-> "Int32", text |-> <<"4", "2">>],
     [type |-> "Float", text |-> <<"4", "2", ".", "0">>],
     [type |-> "Double", text |-> <<"4", "2", ".", "0">>]}

\* one push of an operand of TopOperands, then print or an assert
ProgramsTop ==
    {<<PushLine(a), line, <<"e", "x", "i", "t">>>> :
        a \in TopOperands,
        line \in {<<"p", "r", "i", "n", "t">>} \cup {AssertLine(b) : b \in TopOperands}}

ProgramsCmd ==
    {pushes \o <<line, <<"e", "x", "i", "t">>>> :
        pushes \in UNION {[1..n -> {PushLine(o) : o \in CmdOperands}] : n \in 0..MaxDepth},
        line \in SimpleLines \cup {PushLine(o) : o \in CmdOperands}
                 \cup {AssertLine(o) : o \in CmdOperands}}
    \cup ProgramsTop

ProgramsArith ==
    {<<PushLine(a), PushLine(b), line, <<"e", "x", "i", "t">>>> :
        a \in ArithOperands, b \in ArithOperands, line \in ArithLines}

InitCmd == Start(ProgramsCmd)

SpecCmd == InitCmd /\ [][Next]_vars

InitArith == Start(ProgramsArith)

SpecArith == InitArith /\ [][Next]_vars

\* the operands of the programs of SpecDiv
DivOperands ==
    {[type |-> "Int32", text |-> <<"2", "9", "9", "9", "9", "9", "9">>],
     [type |-> "Int32", text |-> <<"3", "0", "0", "0", "0", "0", "0">>],
     [type |-> "Int32", text |-> <<"-", "7">>],
     [type |-> "Int32", text |-> <<"7">>],
     [type |-> "Int16", text |-> <<"3">>],
     [type |-> "Int16", text |-> <<"-", "3">>],
     [type |-> "Int8", text |-> <<"-", "1", "2", "8">>],
     [type |-> "Int8", text |-> <<"-", "1">>],
     [type |-> "Int8", text |-> <<"0">>],
     [type |-> "Int8", text |-> <<"1", "0", "0">>]}

\* the programs of SpecDiv: two pushes, then div or mod, then exit
ProgramsDiv ==
    {<<PushLine(a), PushLine(b), line, <<"e", "x", "i", "t">>>> :
        a \in DivOperands, b \in DivOperands, line \in {<<"d", "i", "v">>, <<"m", "o", "d">>}}

InitDiv == Start(ProgramsDiv)

SpecDiv == InitDiv /\ [][Next]_vars

(***************************************************************************)
(* Direct calls of the operand factory, one per behaviour.                 *)
(***************************************************************************)
\* the texts on both sides of the limits of the integer types
LimitTexts(type) ==
    CASE type = "Int8" ->
           {<<"-", "1", "2", "9">>, <<"-", "1", "2", "8">>, <<"-", "1", "2", "7">>,
            <<"1", "2", "6">>, <<"1", "2", "7">>, <<"1", "2", "8">>}
      [] type = "Int16" ->
           {<<"-", "3", "2", "7", "6", "9">>, <<"-", "3", "2", "7", "6", "8">>,
            <<"-", "3", "2", "7", "6", "7">>, <<"3", "2", "7", "6", "6">>,
            <<"3", "2", "7", "6", "7">>, <<"3", "2", "7", "6", "8">>}
      [] type = "Int32" ->
           {<<"-", "2", "1", "4", "7", "4", "8", "3", "6", "4", "9">>,
            <<"-", "2", "1", "4", "7", "4", "8", "3", "6", "4", "8">>,
            <<"-", "2", "1", "4", "7", "4", "8", "3", "6", "4", "7">>,
            <<"2", "1", "4", "7", "4", "8", "3", "6", "4", "6">>,
            <<"2", "1", "4", "7", "4", "8", "3", "6", "4", "7">>,
            <<"2", "1", "4", "7", "4", "8", "3", "6", "4", "8">>}
      [] OTHER -> {}

\* texts given to the factory for every type
CommonTexts ==
    {<<"0">>, <<"-", "1">>, <<"1">>, <<"4", "2">>, <<"0", ".", "5">>,
     <<"-", "2", ".", "5">>, <<"1", "2", "7", ".", "5">>,
     <<"-", "0", ".", "5">>, <<"0", "0", "7">>, <<"1", "e", "2">>,
     <<"9", "9", "9", "9", "9", "9", "9", "9", "9", "9", "9">>,
     <<"-", "9", "9", "9", "9", "9", "9", "9", "9", "9", "9", "9">>}

\* the calls createOperand(type, text) of SpecFactory
FactoryCalls ==
    {[NoCreated EXCEPT !.type = type, !.text = text] :
        type \in OperandTypes, text \in CommonTexts}
    \cup UNION {{[NoCreated EXCEPT !.type = type, !.text = text] : text \in LimitTexts(type)} :
                   type \in IntTypes}

InitFactory ==
    /\ program = <<>>
    /\ fromStdin = FALSE
    /\ collectErrors = FALSE
    /\ created \in FactoryCalls
    /\ Constructed

\* OperandFactory::createOperand(created.type, created.text)
Create ==
    /\ ~created.done
    /\ created.type \in OperandTypes
    /\ LET Made(r) == created' = [created EXCEPT !.done = TRUE, !.err = r.err, !.op = r.op]
       IN  Made(createOperand(created.type, created.text))
    /\ UNCHANGED <<program, fromStdin, runs, collectErrors, pc, tokens, lexErrors, parseErrors, commands,
                   ip, stack, exitCalled, cout, cerr, raised, deletes, executed,
                   everOnStack, last>>

\* OperandFactory::createOperand(op->getType(), op->toString()) for the operand
\* op that Create returned
Recreate ==
    /\ created.done
    /\ created.err = "none"
    /\ ~created.again.done
    /\ LET Made(r) == created' = [created EXCEPT !.again = [done |-> TRUE, err |-> r.err,
                                                            op |-> r.op]]
       IN  Made(createOperand(created.op.type, created.op.str))
    /\ UNCHANGED <<program, fromStdin, runs, collectErrors, pc, tokens, lexErrors, parseErrors, commands,
                   ip, stack, exitCalled, cout, cerr, raised, deletes, executed,
                   everOnStack, last>>

NextFactory == Create \/ Recreate

SpecFactory == InitFactory /\ [][NextFactory]_vars

(***************************************************************************)
(* Runs on texts that exercise the lexer, read from a file or from the     *)
(* standard input.                                                         *)
(***************************************************************************)
\* the most lines a program text of SpecLex has
MaxLexLines == 3

\* the lines the program texts of SpecLex are made of
LexLines ==
    {<<"p", "o", "p", " ", "p", "o", "p">>,
     <<"p", "u", "s", "h", " ", "i", "n", "t", "3", "2", "(", "1", ")", " ", "e", "x", "i", "t">>,
     <<"e", "x", "i", "t">>,
     <<";", ";">>,
     <<"d", "u", "m", "p", " ", ";", " ", "c", ";", ";">>,
     <<"P", "U", "S", "H", " ", "i", "n", "t", "8", "(", "1", ")">>,
     <<"@", ";", ";">>,
     <<"p", "u", "s", "h", " ", "i", "n", "t", "8", "(", "1", ")">>,
     <<"p", "o", "p", " ", ";", ";">>}

ProgramsLex == UNION {[1..n -> LexLines] : n \in 0..MaxLexLines}

\* a constructed machine and the stream and mode run is given
InitLex ==
    /\ program \in ProgramsLex
    /\ fromStdin \in BOOLEAN
    /\ collectErrors \in BOOLEAN
    /\ created = NoCreated
    /\ Constructed

SpecLex == InitLex /\ [][Next]_vars

(***************************************************************************)
(* Runs on one push or assert whose value is written in each of the forms  *)
(* that Parser::parseValue reads, then exit.                               *)
(***************************************************************************)
\* the line "push type text"
BareLine(o) == <<"p", "u", "s", "h", " ">> \o TypeName(o.type) \o <<" ">> \o o.text

\* the line "push type(text", which lacks the closing parenthesis
UnclosedLine(o) == <<"p", "u", "s", "h", " ">> \o TypeName(o.type) \o <<"(">> \o o.text

\* INTEGER and DECIMAL literals: in the range of every type, and out of the
\* range of int8, of int16, of int32 and of float
ValueTexts ==
    {<<"4", "2">>,
     <<"-", "1", ".", "5">>,
     <<"1", "2", "8">>,
     <<"-", "4", "0", "0", "0", "0">>,
     <<"9", "9", "9", "9", "9", "9", "9", "9", "9", "9", "9">>,
     <<"1", "0", "0", "0", "0", "0", "0", "0", "0", "0", "0", "0", "0", "0", "0", "0",
     "0", "0", "0", "0", "0", "0", "0", "0", "0", "0", "0", "0", "0", "0", "0", "0",
     "0", "0", "0", "0", "0", "0", "0", "0">>}

ValueOperands == {[type |-> type, text |-> text] : type \in OperandTypes, text \in ValueTexts}

ProgramsValue ==
    {<<line, <<"e", "x", "i", "t">>>> :
        line \in UNION {{PushLine(o), BareLine(o), UnclosedLine(o), AssertLine(o)} :
                           o \in ValueOperands}}

InitValue == Start(ProgramsValue)

SpecValue == InitValue /\ [][Next]_vars

(***************************************************************************)
(* Calls of run, one after the other, on the same machine.                 *)
(***************************************************************************)
\* the most calls of run on one machine
MaxRuns == 2

\* the program texts given to the calls of run of SpecRerun
ProgramsRerun ==
    {<<<<"p", "u", "s", "h", " ", "i", "n", "t", "3", "2", "(", "4", "2", ")">>, <<"a", "d", "d">>, <<"e", "x", "i", "t">>>>,
     <<<<"p", "u", "s", "h", " ", "i", "n", "t", "3", "2", "(", "4", "2", ")">>, <<"e", "x", "i", "t">>>>,
     <<<<"e", "x", "i", "t">>>>,
     <<<<"d", "u", "m", "p">>, <<"e", "x", "i", "t">>>>,
     <<<<"p", "o", "p">>, <<"e", "x", "i", "t">>>>,
     <<<<"p", "i", "s", "h">>>>}

InitRerun == Start(ProgramsRerun)

\* the caller calls run again on the same machine, with another stream: the
\* locals of run are new, the members of the machine and the heap are kept;
\* the histories of what was executed and written start anew
Rerun ==
    /\ pc \in {"returned", "raised"}
    /\ runs < MaxRuns
    /\ runs' = runs + 1
    /\ program' \in ProgramsRerun
    /\ pc' = "start"
    /\ tokens' = <<>>
    /\ lexErrors' = <<>>
    /\ parseErrors' = <<>>
    /\ commands' = <<>>
    /\ ip' = 1
    /\ raised' = "none"
    /\ cout' = <<>>
    /\ cerr' = <<>>
    /\ executed' = <<>>
    /\ last' = NoLast
    /\ UNCHANGED <<fromStdin, collectErrors, stack, exitCalled, deletes, everOnStack,
                   created>>

NextRerun == Next \/ Rerun

SpecRerun == InitRerun /\ [][NextRerun]_vars

(***************************************************************************)
(* Properties of a run.                                                    *)
(***************************************************************************)
\* run has returned control to its caller, normally or by an exception
Terminated == pc \in {"returned", "raised"}

\* the parser has run: the lexer raised nothing
Parsed == pc \notin {"start", "lexed"} /\ raised # "LexicalException"

\* how many lines of the program are the instruction exit
ExitLines == Cardinality({i \in 1..Len(program) : program[i] = <<"e", "x", "i", "t">>})

\* an exit command has executed, and it and every command before it without failure
ExitRan ==
    \E i \in 1..Len(executed) :
        executed[i].kind = "exit" /\ \A j \in 1..i : executed[j].thrown = "none"

\* the failure of VirtualMachine::validateExit left run or was reported
MissingExitFailed ==
    \/ raised = "AbstractVMException"
    \/ \E i \in 1..Len(cerr) : cerr[i] = Message("AbstractVMException", 0)

\* C1: once the exit command has executed in a program that lexed and parsed
\* without error, with every command up to it succeeding, the exit flag is set
\* and run raises and reports no failure
ExitMakesRunSucceed ==
    (ExitRan /\ lexErrors = <<>>) => (exitCalled /\ raised = "none" /\ cerr = <<>>)

\* C2: the commands execute in program order, and no command executes once
\* an exit command has executed
NothingExecutesAfterExit ==
    /\ \A i \in 1..Len(executed) : executed[i].ip = i
    /\ \A i \in 1..(Len(executed) - 1) : executed[i].kind # "exit"

\* C3: a run of a program without exit instruction ends with the missing-exit
\* failure of the VM's exit check
NoExitFailsInExitCheck ==
    (Terminated /\ Parsed /\ ExitLines = 0) => MissingExitFailed

\* C4 as amended: of the programs that have no other lexical or syntax error,
\* the parser accepts those with at least one exit instruction, however many,
\* and rejects those with none with a syntax error before anything executes
AcceptedIffSomeExit ==
    (Parsed /\ lexErrors = <<>>
        /\ \A i \in 1..Len(parseErrors) : parseErrors[i] = MissingExitMessage)
    => /\ (parseErrors = <<>>) <=> (ExitLines >= 1)
       /\ ExitLines = 0 => executed = <<>> /\ Terminated
       /\ (ExitLines = 0 /\ ~collectErrors) => raised = "SyntaxException"
       /\ (ExitLines = 0 /\ collectErrors) => cerr = <<MissingExitMessage>>

\* C4, witness: the parser accepted a program with two or more exit instructions
AcceptedWithTwoExits == Parsed /\ parseErrors = <<>> /\ ExitLines >= 2 /\ executed # <<>>

\* C4 as stated: the parser accepts a program only if it has exactly one exit
\* instruction
AcceptedOnlyWithOneExit == (Parsed /\ parseErrors = <<>>) => ExitLines = 1

\* C5: when run has returned control, the stack is empty and every operand
\* that was on it has been deleted exactly once
StackDisposedOnReturn ==
    Terminated => (stack = <<>> /\ \A id \in everOnStack : deletes[id] = 1)

(***************************************************************************)
(* Properties of the commands.  In last, stack and cout are the stack and  *)
(* the output before the last command executed.                            *)
(***************************************************************************)
\* the value of an operand of an integer type, as an integer
IntValue(o) == IF o.value.neg THEN 0 - NatOfMag(o.value.num) ELSE NatOfMag(o.value.num)

RECURSIVE TopToBottom(_)
\* the text forms of the operands of a stack, one per line, the top first
TopToBottom(s) ==
    IF s = <<>> THEN <<>> ELSE WriteLine(<<>>, Top(s).str) \o TopToBottom(Pop(s))

\* C6: dump writes one line per stack entry, the most recently pushed operand
\* first and the oldest last
DumpWritesTopFirst ==
    (last.kind = "dump" /\ last.thrown = "none")
        => cout = last.cout \o TopToBottom(last.stack)

TruncDiv(a, b) ==
    LET abs(x) == IF x < 0 THEN 0 - x ELSE x
    IN  IF (a < 0) = (b < 0) THEN abs(a) \div abs(b) ELSE 0 - (abs(a) \div abs(b))

\* a OP b on integers
IntOp(op, a, b) ==
    CASE op = "add" -> a + b
      [] op = "sub" -> a - b
      [] op = "mul" -> a * b
      [] op = "div" -> TruncDiv(a, b)
      [] op = "mod" -> a - b * TruncDiv(a, b)

\* C8: each arithmetic command that succeeds replaces the top two operands,
\* b on top and a below it, by the one result of a OP b, and leaves the rest
\* of the stack as it was
BinaryTakesDeeperAsLeft ==
    (last.kind \in Operators /\ last.thrown = "none")
        => LET n == Len(last.stack)
               a == last.stack[n - 1]
               b == last.stack[n]
           IN  /\ n >= 2
               /\ Len(stack) = n - 1
               /\ SubSeq(stack, 1, n - 2) = SubSeq(last.stack, 1, n - 2)
               /\ (a.type \in IntTypes /\ b.type \in IntTypes)
                     => IntValue(Top(stack)) = IntOp(last.kind, IntValue(a), IntValue(b))
               /\ last.kind = "sub"
                     => LdCmp(Top(stack).value, LdSub(a.value, b.value)) = 0

\* C8, witness: sub has executed on a stack of depth 3 whose top two operands
\* differ, and left the difference of the deeper one and the top one
SubtractedDeeperMinusTop ==
    /\ last.kind = "sub" /\ last.thrown = "none" /\ Len(last.stack) = 3
    /\ IntValue(last.stack[2]) = 65 /\ IntValue(last.stack[3]) = 42
    /\ Top(stack).str = <<"2", "3">>

\* the order of the operand types
TypeRank(type) ==
    CASE type = "Int8" -> 1
      [] type = "Int16" -> 2
      [] type = "Int32" -> 3
      [] type = "Float" -> 4
      [] type = "Double" -> 5

\* max(kindA, kindB)
MaxType(a, b) == IF TypeRank(a) >= TypeRank(b) THEN a ELSE b

\* C9: a successful arithmetic operation yields a result of the greater of the
\* two operand types in the order Int8 < Int16 < Int32 < Float < Double,
\* whichever operand is on the left
ResultTypeIsMax ==
    (last.kind \in Operators /\ last.thrown = "none")
        => Top(stack).type = MaxType(last.stack[1].type, last.stack[2].type)

\* C9, witness: an operation with the lesser type on the right has succeeded
PromotedToDouble ==
    /\ last.kind = "mul" /\ last.thrown = "none"
    /\ last.stack[1].type = "Double" /\ last.stack[2].type = "Int8"
    /\ Top(stack).type = "Double"

\* the greatest value of an integer type
IntMax(type) ==
    CASE type = "Int8" -> Ld(FALSE, <<127>>, <<1>>)
      [] type = "Int16" -> Ld(FALSE, <<767, 32>>, <<1>>)
      [] type = "Int32" -> Ld(FALSE, <<647, 483, 147, 2>>, <<1>>)

\* the least value of an integer type
IntMin(type) ==
    CASE type = "Int8" -> Ld(TRUE, <<128>>, <<1>>)
      [] type = "Int16" -> Ld(TRUE, <<768, 32>>, <<1>>)
      [] type = "Int32" -> Ld(TRUE, <<648, 483, 147, 2>>, <<1>>)

\* the exact result of a OP b
Exact(op, a, b) ==
    CASE op = "add" -> LdAdd(a, b)
      [] op = "sub" -> LdSub(a, b)
      [] op = "mul" -> LdMul(a, b)
      [] op = "div" -> LdDiv(a, b)
      [] op = "mod" -> LdFmod(a, b)

\* C10: an arithmetic operation on operands of integer types whose exact
\* result is above the maximum of the result type fails with Overflow, one
\* whose exact result is below the minimum fails with Underflow, and a result
\* that is pushed lies within the range of its type
IntegerResultIsRangeChecked ==
    (/\ last.kind \in Operators
     /\ last.stack[1].type \in IntTypes /\ last.stack[2].type \in IntTypes
     /\ ~(last.kind \in {"div", "mod"} /\ LdIsZero(last.stack[2].value)))
        => LET type == MaxType(last.stack[1].type, last.stack[2].type)
               exact == Exact(last.kind, last.stack[1].value, last.stack[2].value)
           IN  /\ LdCmp(exact, IntMax(type)) > 0 => last.thrown = "OverflowException"
               /\ LdCmp(exact, IntMin(type)) < 0 => last.thrown = "UnderflowException"
               /\ last.thrown = "none"
                     => /\ LdCmp(Top(stack).value, IntMax(type)) <= 0
                        /\ LdCmp(Top(stack).value, IntMin(type)) >= 0

\* C10, witness: int8 100 + int8 50 has failed with Overflow and pushed nothing
Int8SumOverflowed ==
    /\ last.kind = "add" /\ last.thrown = "OverflowException"
    /\ last.stack[1].type = "Int8" /\ IntValue(last.stack[1]) = 100
    /\ last.stack[2].type = "Int8" /\ IntValue(last.stack[2]) = 50
    /\ stack = <<>>

(***************************************************************************)
(* Properties of the operand factory.                                      *)
(***************************************************************************)
\* the text is that of the type's maximum + 1, its minimum - 1, its maximum
\* or its minimum
IsAboveMax(type, t) == t = MagText(MagAdd(IntMax(type).num, MagOne))

IsBelowMin(type, t) == t = <<"-">> \o MagText(MagAdd(IntMin(type).num, MagOne))

IsMax(type, t) == t = MagText(IntMax(type).num)

IsMin(type, t) == t = <<"-">> \o MagText(IntMin(type).num)

\* C11: for each integer type createOperand succeeds on the text of the exact
\* minimum and of the exact maximum, fails with Underflow on the text of the
\* minimum - 1 and with Overflow on the text of the maximum + 1, and every
\* operand it creates has a value within the range of its type
FactoryChecksIntegerLimits ==
    (created.done /\ created.type \in IntTypes)
        => /\ IsMax(created.type, created.text)
                => /\ created.err = "none"
                   /\ LdCmp(created.op.value, IntMax(created.type)) = 0
           /\ IsMin(created.type, created.text)
                => /\ created.err = "none"
                   /\ LdCmp(created.op.value, IntMin(created.type)) = 0
           /\ IsAboveMax(created.type, created.text) => created.err = "OverflowException"
           /\ IsBelowMin(created.type, created.text) => created.err = "UnderflowException"
           /\ created.err = "none"
                => /\ created.op.type = created.type
                   /\ LdCmp(created.op.value, IntMax(created.type)) <= 0
                   /\ LdCmp(created.op.value, IntMin(created.type)) >= 0

\* C11, witness: the factory has created the Int16 operand of the text -32768
CreatedInt16Minimum ==
    /\ created.done /\ created.type = "Int16" /\ IsMin("Int16", created.text)
    /\ created.err = "none" /\ created.op.str = created.text

(***************************************************************************)
(* Properties of the failures of the commands.                             *)
(***************************************************************************)
\* C12: a div or mod whose top operand is zero fails with DivisionByZero,
\* leaves the stack as it was less its top two operands, and has deleted
\* those two operands
DivisionByZeroDisposesOperands ==
    (/\ last.kind \in {"div", "mod"}
     /\ Len(last.stack) >= 2
     /\ LdIsZero(Top(last.stack).value))
        => LET n == Len(last.stack)
           IN  /\ last.thrown = "DivisionByZeroException"
               /\ pc # "returned" => stack = SubSeq(last.stack, 1, n - 2)
               /\ deletes[last.stack[n].id] = 1
               /\ deletes[last.stack[n - 1].id] = 1

\* C13: assert on a non-empty stack succeeds if and only if the top operand
\* has the type and the text of the expected operand, and fails with
\* AssertException otherwise
AssertComparesTypeAndText ==
    (last.kind = "assert" /\ last.stack # <<>>)
        => LET top == Top(last.stack)
               expected == last.operand
           IN  /\ last.thrown \in {"none", "AssertException"}
               /\ last.thrown = "none"
                     <=> (top.type = expected.type /\ top.str = expected.str)

\* C13, witness: assert int8(42) has failed on a stack whose top is int32(42)
AssertRefusedEqualValueOfOtherType ==
    /\ last.kind = "assert" /\ last.thrown = "AssertException"
    /\ last.stack # <<>>
    /\ Top(last.stack).type = "Int32" /\ last.operand.type = "Int8"
    /\ Top(last.stack).str = <<"4", "2">> /\ last.operand.str = <<"4", "2">>

\* C14: pop on a non-empty stack removes the top operand alone and deletes
\* it; pop, assert and print on an empty stack fail with EmptyStackException
\* and leave the stack empty
PopRemovesTopAndEmptyStackFails ==
    /\ (last.kind = "pop" /\ last.stack # <<>>)
          => LET n == Len(last.stack)
             IN  /\ last.thrown = "none"
                 /\ deletes[last.stack[n].id] = 1
                 /\ pc # "returned"
                       => /\ stack = SubSeq(last.stack, 1, n - 1)
                          /\ \A i \in 1..(n - 1) : deletes[last.stack[i].id] = 0
    /\ (last.kind \in {"pop", "assert", "print"} /\ last.stack = <<>>)
          => /\ last.thrown = "EmptyStackException"
             /\ stack = <<>>
             /\ cout = last.cout

\* C14, witness: pop has taken the top operand off a stack of three
PoppedOneOfThree ==
    /\ last.kind = "pop" /\ last.thrown = "none"
    /\ Len(last.stack) = 3 /\ Len(stack) = 2
    /\ deletes[last.stack[3].id] = 1

\* C15: each arithmetic command on a stack of fewer than two operands fails
\* with InsufficientValuesException and leaves the stack as it was, its one
\* operand, if any, not deleted
BinaryNeedsTwoOperands ==
    (last.kind \in Operators /\ Len(last.stack) < 2)
        => /\ last.thrown = "InsufficientValuesException"
           /\ pc # "returned"
                 => /\ stack = last.stack
                    /\ \A i \in 1..Len(last.stack) : deletes[last.stack[i].id] = 0

\* C15, witness: div has failed on a stack of one operand, which is still there
DivRefusedOneOperand ==
    /\ last.kind = "div" /\ last.thrown = "InsufficientValuesException"
    /\ Len(last.stack) = 1 /\ stack = last.stack /\ pc = "raised"

\* C16: print on a non-empty stack fails with AssertException if and only if
\* the type of the top operand is not Int8, whatever its value, and then
\* writes nothing
PrintRequiresInt8 ==
    (last.kind = "print" /\ last.stack # <<>>)
        => /\ last.thrown \in {"none", "AssertException"}
           /\ last.thrown = "AssertException" <=> Top(last.stack).type # "Int8"
           /\ Top(last.stack).type # "Int8" => cout = last.cout

\* C16, witness: print has refused the Int16 operand 65 and written nothing
PrintRefusedInt16 ==
    /\ last.kind = "print" /\ last.thrown = "AssertException"
    /\ last.stack # <<>>
    /\ Top(last.stack).type = "Int16" /\ IntValue(Top(last.stack)) = 65
    /\ cout = <<>>

\* C17: dump, exit, assert and print, whether they succeed or fail, leave the
\* stack as it was: the same operands in the same order
StackUnchangedByObservers ==
    (last.kind \in {"dump", "exit", "assert", "print"} /\ pc # "returned")
        => stack = last.stack

\* C17, witness: dump has written a stack of three operands, the deepest of
\* another type than the top one, and the stack is as before
DumpedThreeAndKeptThem ==
    /\ last.kind = "dump" /\ last.thrown = "none"
    /\ Len(last.stack) = 3 /\ last.stack[1].type # last.stack[3].type
    /\ cout # last.cout /\ stack = last.stack

\* the number of executed commands of the given kinds
Count(kinds) == Cardinality({i \in 1..Len(executed) : executed[i].kind \in kinds})

\* the change of the stack depth the claim gives for a command
DepthChange(kind) ==
    CASE kind = "push" -> 1
      [] kind = "pop" -> 0 - 1
      [] kind \in {"add", "sub", "mul", "div", "mod"} -> 0 - 1
      [] OTHER -> 0

\* C18: while every command executed so far has succeeded, the depth of the
\* stack is the number of pushes executed less the pops and the arithmetic
\* commands executed, and the last command changed the depth by +1 (push),
\* -1 (pop, arithmetic) or 0 (dump, assert, print, exit)
DepthIsPushesLessConsumptions ==
    (pc # "returned" /\ \A i \in 1..Len(executed) : executed[i].thrown = "none")
        => /\ Len(stack) = Count({"push"}) - Count({"pop"})
                             - Count({"add", "sub", "mul", "div", "mod"})
           /\ executed # <<>> => Len(stack) = Len(last.stack) + DepthChange(last.kind)

\* C18, witness: two pushes and an add have executed and left one operand
PushedTwiceAndAdded ==
    /\ Len(executed) = 3 /\ \A i \in 1..3 : executed[i].thrown = "none"
    /\ executed[1].kind = "push" /\ executed[2].kind = "push" /\ executed[3].kind = "add"
    /\ Len(stack) = 1

(***************************************************************************)
(* Properties of the two error modes.                                      *)
(***************************************************************************)
\* C19: in collection mode, once the lexer or the parser has logged an error
\* no command is ever executed: run goes from the parser to its return, the
\* stack stays empty and nothing is written
NoExecutionAfterLoggedErrors ==
    (collectErrors /\ (lexErrors # <<>> \/ parseErrors # <<>>))
        => /\ pc \in {"lexed", "returned"}
           /\ executed = <<>> /\ stack = <<>> /\ cout = <<>>

\* C19, witness: run has returned from a program with a push line in which
\* the lexer logged an error, and has reported errors
ReturnedAfterLexicalError ==
    /\ collectErrors /\ lexErrors # <<>> /\ pc = "returned" /\ cerr # <<>>
    /\ \E i \in 1..Len(program) : program[i][1] = "p" /\ program[i][2] = "u"

\* C20: a command that fails is the last command executed, in both modes; in
\* fail-fast mode its exception leaves run, in collection mode run reports
\* it and returns without raising
FailureEndsExecution ==
    /\ \A i \in 1..(Len(executed) - 1) : executed[i].thrown = "none"
    /\ (executed # <<>> /\ executed[Len(executed)].thrown # "none")
          => LET failure == executed[Len(executed)].thrown
             IN  IF collectErrors
                 THEN /\ pc \in {"cleanup", "returned"}
                      /\ raised = "none"
                      /\ cerr = <<Message(failure, 0)>>
                 ELSE /\ pc = "raised"
                      /\ raised = failure
                      /\ cerr = <<>>

\* C20, witness: in collection mode the first of three or more commands has
\* failed, and run has returned having executed that command alone
ReturnedAfterFirstCommandFailed ==
    /\ collectErrors /\ pc = "returned" /\ parseErrors = <<>> /\ Len(program) >= 3
    /\ Len(executed) = 1 /\ executed[1].thrown = "EmptyStackException"
    /\ raised = "none"

\* C21: in collection mode every message collected during the run is reported
\* by run: once run has returned, each entry of the parser's error log and
\* each entry of the lexer's error log is a line of the error output
CollectedErrorsAreReported ==
    (collectErrors /\ pc = "returned")
        => /\ \A i \in 1..Len(parseErrors) : \E j \in 1..Len(cerr) : cerr[j] = parseErrors[i]
           /\ \A i \in 1..Len(lexErrors) :
                  \E j \in 1..Len(cerr) : /\ cerr[j].msg = lexErrors[i].what
                                          /\ cerr[j].line = lexErrors[i].line

\* the lines of Lines that hold a lexical or a syntactic defect
DefectLines == {<<"p", "i", "s", "h">>, <<"@">>}

\* C22: in collection mode one run reports at least one error for every line
\* with a lexical or syntactic defect, and the recovery from a defect does not
\* swallow the line after it: an exit on a later line is still parsed, so no
\* missing exit is reported for a program that has one
EveryDefectiveLineIsReported ==
    (collectErrors /\ pc = "returned")
        => LET defects == {i \in 1..Len(program) : program[i] \in DefectLines}
               reports == {j \in 1..Len(cerr) : cerr[j] # MissingExitMessage}
           IN  /\ Cardinality(defects) <= Cardinality(reports)
               /\ (\E i \in 1..Len(program) : program[i] = <<"e", "x", "i", "t">>)
                      => \A j \in 1..Len(cerr) : cerr[j] # MissingExitMessage

\* C23: lex, then parse, then execute, in both modes: a command is executed,
\* the stack changed or output written only once the whole input has been
\* tokenized (the tokens end with the end marker) and parsed without error
\* (no error logged, no LexicalException or SyntaxException raised), so an
\* error on the last line prevents every effect of the lines before it
StagesAreOrdered ==
    /\ (pc \in {"exec", "validate", "cleanup"} \/ executed # <<>> \/ stack # <<>>
            \/ cout # <<>>)
          => /\ tokens # <<>>
             /\ tokens[Len(tokens)].type \in {"END_FILE", "END_INPUT"}
             /\ lexErrors = <<>>
             /\ parseErrors = <<>>
             /\ raised \notin {"LexicalException", "SyntaxException"}
    /\ (program # <<>> /\ program[Len(program)] \in DefectLines)
          => executed = <<>> /\ stack = <<>> /\ cout = <<>>

\* C23, witness: in fail-fast mode run has raised SyntaxException for the last
\* line of a program that begins with a push and a dump, and nothing was
\* executed or written
SyntaxErrorOnLastLinePreventedDump ==
    /\ ~collectErrors /\ raised = "SyntaxException" /\ Len(program) = 3
    /\ program[1] = <<"p", "u", "s", "h", " ", "i", "n", "t", "8", "(", "1", "0", "0", ")">>
    /\ program[2] = <<"d", "u", "m", "p">>
    /\ program[3] = <<"p", "i", "s", "h">>
    /\ executed = <<>> /\ cout = <<>>

\* C24: the parser requires a NEWLINE between consecutive instructions: a
\* program with two instructions on one line (pop pop, push int32(1) exit) is
\* rejected with a syntax error and none of its commands is executed
SameLineInstructionsAreRejected ==
    (Parsed /\ \E i \in 1..Len(program) :
                   program[i] \in {<<"p", "o", "p", " ", "p", "o", "p">>,
                                   <<"p", "u", "s", "h", " ", "i", "n", "t", "3", "2", "(",
                                     "1", ")", " ", "e", "x", "i", "t">>})
        => /\ executed = <<>>
           /\ pc \in {"raised", "returned"}
           /\ pc = "raised" => raised = "SyntaxException"
           /\ pc = "returned" => cerr # <<>>

RejectingTypes(text) ==
    IF text = <<"1", "2", "8">> THEN {"Int8"}
    ELSE IF text = <<"-", "4", "0", "0", "0", "0">> THEN {"Int8", "Int16"}
    ELSE IF text = <<"9", "9", "9", "9", "9", "9", "9", "9", "9", "9", "9">>
    THEN {"Int8", "Int16", "Int32"}
    ELSE IF Len(text) > 11 THEN {"Int8", "Int16", "Int32", "Float"}
    ELSE {}

\* C26: when the factory rejects the literal of a push or assert, the parser
\* reports a parser-level error: in fail-fast mode run fails with
\* SyntaxException, in collection mode exactly one error is logged, it is the
\* factory's failure, and no command or operand is built for the instruction
FactoryFailureIsParserError ==
    Parsed =>
        \A o \in ValueOperands :
            (/\ program[1] \in {PushLine(o), BareLine(o), AssertLine(o)}
             /\ o.type \in RejectingTypes(o.text))
                => /\ executed = <<>> /\ stack = <<>> /\ deletes = <<>>
                   /\ Len(parseErrors) = 1
                   /\ parseErrors[1].msg \in
                          {"Failed to create operand: OverflowException",
                           "Failed to create operand: UnderflowException"}
                   /\ IF collectErrors
                      THEN pc = "returned" /\ raised = "none" /\ cerr = parseErrors
                      ELSE pc = "raised" /\ raised = "SyntaxException"

\* C26, witness: in collection mode run has returned from an assert of an
\* int16 below the range, with the failure logged and reported
AssertBelowInt16Reported ==
    /\ collectErrors /\ pc = "returned"
    /\ program[1] = AssertLine([type |-> "Int16", text |-> <<"-", "4", "0", "0", "0", "0">>])
    /\ cerr = <<Message("Failed to create operand: UnderflowException", 0)>>

\* tokenize has returned: the lexer raised nothing
Lexed == pc # "start" /\ raised # "LexicalException"

\* C27: for every input and both modes, the tokens tokenize returns hold
\* exactly one end marker (END_INPUT or END_FILE), it is the last token, and
\* no token is a COMMENT
TokensEndWithOneEndMarker ==
    Lexed => /\ tokens # <<>>
             /\ tokens[Len(tokens)].type \in {"END_FILE", "END_INPUT"}
             /\ \A i \in 1..(Len(tokens) - 1) :
                    tokens[i].type \notin {"END_FILE", "END_INPUT", "COMMENT"}

\* C27, witness: tokenize has returned the tokens of a text read from the
\* standard input that holds a comment and, on a later line, the end of input
TokenizedCommentThenEndOfInput ==
    /\ Lexed /\ fromStdin /\ Len(program) = 3
    /\ program[1] = <<"d", "u", "m", "p", " ", ";", " ", "c", ";", ";">>
    /\ program[2] = <<";", ";">>
    /\ Len(tokens) = 3 /\ tokens[3].type = "END_INPUT"

\* the types of the tokens, in order
TypesOf(toks) == [i \in 1..Len(toks) |-> toks[i].type]

\* the part of a line that ends with ";;" before the ";;"
BeforeEnd(line) == SubSeq(line, 1, Len(line) - 2)

\* Read from the standard input, tokenization ends at the ";;" of the first
\* line of ends: the tokens are those of the text cut before that ";;", ended
\* by END_INPUT instead of END_FILE.  Read from a file, or with no line of
\* ends, no token is END_INPUT, the last one is END_FILE and the NEWLINE of
\* every line is among the tokens (but that of a line the error recovery has
\* discarded)
EndsAtFirstOf(ends) ==
    LET at == {i \in 1..Len(program) : program[i] \in ends}
        Cut(k) ==
            tokenize(Lexer(Text(SubSeq(program, 1, k - 1)) \o BeforeEnd(program[k]),
                           TRUE, collectErrors)).tokens
        Expected(cut) == [TypesOf(cut) EXCEPT ![Len(cut)] = "END_INPUT"]
    IN  IF fromStdin /\ at # {}
        THEN TypesOf(tokens) = Expected(Cut(CHOOSE k \in at : \A j \in at : k <= j))
        ELSE /\ tokens[Len(tokens)].type = "END_FILE"
             /\ \A i \in 1..Len(tokens) : tokens[i].type # "END_INPUT"
             /\ Len(SelectSeq(tokens, LAMBDA t : t.type = "NEWLINE"))
                   = Cardinality({i \in 1..Len(program) : program[i] # <<"@", ";", ";">>})

\* C28: read from the standard input, the first ";;" that is neither inside a
\* comment nor in the rest of a line that the recovery from a lexical error
\* discards ends tokenization with END_INPUT, and no character after it gives
\* a token; read from a file, ";;" is a comment, the tokens of the lines after
\* it are produced and END_FILE ends them
EndOfInputEndsTokenizationUnlessDiscarded ==
    Lexed => EndsAtFirstOf({<<";", ";">>, <<"p", "o", "p", " ", ";", ";">>})

\* C28, witness: read from the standard input, the tokens of "pop ;;" and a
\* second line are POP and END_INPUT
EndOfInputCutTheText ==
    /\ Lexed /\ fromStdin /\ Len(program) = 2
    /\ program[1] = <<"p", "o", "p", " ", ";", ";">>
    /\ TypesOf(tokens) = <<"POP", "END_INPUT">>

\* C28 as stated: every ";;" that is not inside a comment ends tokenization,
\* also the one that follows a character the lexer does not know
EndOfInputEndsTokenization ==
    Lexed => EndsAtFirstOf({<<";", ";">>, <<"p", "o", "p", " ", ";", ";">>,
                            <<"@", ";", ";">>})

\* C29: every token carries the 1-indexed line and the 1-indexed column of
\* the first character of its text: its text stands at that line and column
\* of the input (a NEWLINE stands at the end of its line), and the positions
\* of the tokens increase
TokensCarryStartPosition ==
    Lexed =>
        /\ \A i \in 1..Len(tokens) :
               LET t == tokens[i]
               IN  t.type # "END_FILE"
                      => /\ t.line \in 1..Len(program)
                         /\ IF t.type = "NEWLINE"
                            THEN t.column = Len(program[t.line]) + 1
                            ELSE /\ t.column >= 1
                                 /\ t.column + Len(t.value) - 1 <= Len(program[t.line])
                                 /\ SubSeq(program[t.line], t.column,
                                           t.column + Len(t.value) - 1) = t.value
        /\ \A i \in 1..(Len(tokens) - 1) :
               \/ tokens[i].line < tokens[i + 1].line
               \/ /\ tokens[i].line = tokens[i + 1].line
                  /\ tokens[i].column < tokens[i + 1].column

\* C30: an identifier that is not one of the sixteen lowercase keywords, such
\* as PUSH, causes no lexical error in either mode (the lexer logs and raises
\* errors for other characters only), the lexer emits it as an UNKNOWN token
\* with the identifier as its text, and the parser rejects every program
\* with such a token: nothing is executed, fail-fast mode raises
\* SyntaxException and collection mode reports errors
UnknownIdentifierIsRejectedByParser ==
    /\ \A i \in 1..Len(lexErrors) : ~isalpha(lexErrors[i].char)
    /\ raised = "LexicalException"
          => \E k \in 1..Len(program) : program[k] = <<"@", ";", ";">>
    /\ Lexed
          => \A k \in 1..Len(program) :
                 (/\ program[k] = <<"P", "U", "S", "H", " ", "i", "n", "t", "8", "(", "1", ")">>
                  /\ ~(fromStdin /\ \E j \in 1..(k - 1) :
                                        program[j] \in {<<";", ";">>,
                                                        <<"p", "o", "p", " ", ";", ";">>}))
                     => \E i \in 1..Len(tokens) : /\ tokens[i].type = "UNKNOWN"
                                                  /\ tokens[i].value = <<"P", "U", "S", "H">>
    /\ (Parsed /\ \E i \in 1..Len(tokens) : /\ tokens[i].type = "UNKNOWN"
                                            /\ isalpha(tokens[i].value[1]))
          => /\ executed = <<>> /\ stack = <<>> /\ cout = <<>>
             /\ pc \in {"raised", "returned"}
             /\ pc = "raised" => raised = "SyntaxException"
             /\ pc = "returned" => collectErrors /\ cerr # <<>>

\* C30, witness: in fail-fast mode run has raised SyntaxException for a
\* program whose second line begins with PUSH, which the lexer gave as an
\* UNKNOWN token
UpperCasePushRejected ==
    /\ ~collectErrors /\ pc = "raised" /\ raised = "SyntaxException" /\ Len(program) = 2
    /\ program[1] = <<"p", "u", "s", "h", " ", "i", "n", "t", "8", "(", "1", ")">>
    /\ program[2] = <<"P", "U", "S", "H", " ", "i", "n", "t", "8", "(", "1", ")">>
    /\ \E i \in 1..Len(tokens) : tokens[i].type = "UNKNOWN"

\* the first line that holds a character that starts no token, 0 if none
FirstBadLine ==
    LET bad == {i \in 1..Len(program) : program[i] = <<"@", ";", ";">>}
    IN  IF bad = {} THEN 0 ELSE CHOOSE k \in bad : \A j \in bad : k <= j

\* C31: where the lexer reaches a character that starts no token, tokenize
\* fails at once with LexicalError in fail-fast mode and returns no tokens; in
\* collection mode it logs exactly one error for it, skips the rest of its
\* line, emits exactly one UNKNOWN token for it and goes on with the following
\* lines: the tokens are those of the lines before, the UNKNOWN token, and
\* those of the lines after
UnknownCharacterFailsOrIsSkipped ==
    LET k == FirstBadLine
        before == tokenize(Lexer(Text(SubSeq(program, 1, k - 1)), fromStdin,
                                 collectErrors)).tokens
        after == tokenize(Lexer(Text(SubSeq(program, k + 1, Len(program))), fromStdin,
                                collectErrors))
    IN  (pc # "start" /\ k # 0 /\ before[Len(before)].type = "END_FILE")
            => IF ~collectErrors
               THEN pc = "raised" /\ raised = "LexicalException" /\ tokens = <<>>
               ELSE /\ raised # "LexicalException"
                    /\ TypesOf(tokens) = SubSeq(TypesOf(before), 1, Len(before) - 1)
                                           \o <<"UNKNOWN">> \o TypesOf(after.tokens)
                    /\ Len(lexErrors) = 1 + Len(after.L.errors)
                    /\ lexErrors[1].char = "@" /\ lexErrors[1].line = k

\* C31, witness: in collection mode the lexer has logged one error for the
\* first line of a file and has given an UNKNOWN token and the tokens of the
\* second line
SkippedBadLineThenTokenizedExit ==
    /\ collectErrors /\ ~fromStdin /\ pc # "start" /\ Len(program) = 2
    /\ program[1] = <<"@", ";", ";">> /\ program[2] = <<"e", "x", "i", "t">>
    /\ Len(lexErrors) = 1
    /\ TypesOf(tokens) = <<"UNKNOWN", "EXIT", "NEWLINE", "END_FILE">>

\* C32: the run state is fresh for every call of run: a second call on the
\* same machine starts with an empty stack and an unset exit flag, so a dump
\* as its first instruction writes nothing, as on a new machine
SecondRunStartsFresh ==
    runs = 2
        => /\ pc = "start" => stack = <<>> /\ ~exitCalled
           /\ (program = <<<<"d", "u", "m", "p">>, <<"e", "x", "i", "t">>>>) => cout = <<>>

(***************************************************************************)
(* Ownership of the operands.                                              *)
(***************************************************************************)
\* the number of owners of the operand id: the stack slots that hold it and
\* the commands that hold it in _operand or _expected
OwnersOf(id) ==
    Cardinality({i \in 1..Len(stack) : stack[i].id = id})
    + Cardinality({j \in 1..Len(commands) :
                      commands[j].operand # NoOperand /\ commands[j].operand.id = id})

\* C33: every live operand has exactly one owner, a stack slot or a command;
\* no operand is deleted twice and none is left without an owner, also not the
\* two operands popped by a binary command whose operator then fails
EveryLiveOperandHasOneOwner ==
    \A id \in 1..Len(deletes) :
        /\ deletes[id] <= 1
        /\ deletes[id] = 0 => OwnersOf(id) = 1
        /\ deletes[id] = 1 => OwnersOf(id) = 0

\* an optional "-" and decimal digits, without a leading zero and not "-0"
PlainDecimal(str) ==
    LET digits == IF str # <<>> /\ str[1] = "-" THEN Tail(str) ELSE str
    IN  /\ digits # <<>>
        /\ \A i \in 1..Len(digits) : IsDigit(digits[i])
        /\ Len(digits) > 1 => digits[1] # "0"
        /\ digits = <<"0">> => str = <<"0">>

\* the plain decimal text str writes the integer v
DecimalOf(str, v) ==
    LET neg == str[1] = "-"
    IN  /\ v.neg = neg
        /\ v.den = MagOne
        /\ MagCmp(TextMag(IF neg THEN Tail(str) ELSE str), v.num) = 0

\* C34: for an integer type, the factory accepts the text form of an operand it
\* made and makes an operand of the same type and the same text form from it;
\* the text form is the plain decimal writing of the operand's value
IntegerTextRoundTrips ==
    (created.done /\ created.err = "none" /\ created.type \in IntTypes)
        => /\ PlainDecimal(created.op.str)
           /\ DecimalOf(created.op.str, created.op.value)
           /\ created.again.done
                => /\ created.again.err = "none"
                   /\ created.again.op.type = created.op.type
                   /\ created.again.op.str = created.op.str

\* the factory was given the text form of the int8 it made from "-2.5"
RecreatedFromFractionText ==
    /\ created.again.done
    /\ created.type = "Int8"
    /\ created.text = <<"-", "2", ".", "5">>
    /\ created.op.str = <<"-", "2">>

(***************************************************************************)
(* Division and remainder of operands of integer types.                    *)
(***************************************************************************)
\* the last command was op on a below b, both of integer types, b not zero
IntegerPair(op) ==
    /\ last.kind = op
    /\ Len(last.stack) = 2
    /\ last.stack[1].type \in IntTypes /\ last.stack[2].type \in IntTypes
    /\ IntValue(last.stack[2]) # 0

\* C35: mod on two operands of integer types, a below b and b not zero, leaves
\* a - b * trunc(a / b): zero or of the sign of a, and smaller in magnitude
\* than b
ModIsTruncatingRemainder ==
    IntegerPair("mod")
        => LET a == IntValue(last.stack[1])
               b == IntValue(last.stack[2])
               r == IntValue(Top(stack))
               abs(x) == IF x < 0 THEN 0 - x ELSE x
           IN  /\ last.thrown = "none"
               /\ r = a - b * TruncDiv(a, b)
               /\ r = 0 \/ (r < 0) = (a < 0)
               /\ abs(r) < abs(b)

\* C35, witness: -7 mod 3 has left -1
MinusSevenModThree ==
    /\ IntegerPair("mod") /\ last.thrown = "none"
    /\ IntValue(last.stack[1]) = -7 /\ IntValue(last.stack[2]) = 3
    /\ Top(stack).str = <<"-", "1">>

\* C39: div on two operands of integer types, a below b and b not zero, whose
\* quotient lies within the range of the result type, leaves the quotient
\* a / b truncated toward zero, whatever the values (0 for 2999999 / 3000000)
DivIsTruncatingQuotient ==
    IntegerPair("div")
        => LET a == last.stack[1]
               b == last.stack[2]
               type == MaxType(a.type, b.type)
               exact == LdDiv(a.value, b.value)
           IN  (LdCmp(exact, IntMax(type)) <= 0 /\ LdCmp(exact, IntMin(type)) >= 0)
                  => /\ last.thrown = "none"
                     /\ IntValue(Top(stack)) = TruncDiv(IntValue(a), IntValue(b))

(***************************************************************************)
(* The parser's check for exit, and the commands parse returns.            *)
(***************************************************************************)
\* the program has a line with this text
HasLine(line) == \E i \in 1..Len(program) : program[i] = line

\* C36: the parser checks for exit only after it has parsed every instruction:
\* in fail-fast mode a program without exit that has a malformed instruction
\* fails with the error of that instruction and a well-formed one with the
\* missing-exit error; in collection mode the missing-exit error is logged for
\* a program without exit, once, as the last entry of the log
ExitIsCheckedAfterParsing ==
    LET n == Len(parseErrors)
        pish == <<"p", "i", "s", "h">>
    IN  /\ (Parsed /\ ~collectErrors /\ ~HasLine(<<"e", "x", "i", "t">>))
              => /\ raised = "SyntaxException"
                 /\ n = 1
                 /\ HasLine(pish) <=> parseErrors[n] # MissingExitMessage
        /\ (Parsed /\ collectErrors)
              => /\ \A i \in 1..n : parseErrors[i] = MissingExitMessage => i = n
                 /\ ~HasLine(<<"e", "x", "i", "t">>)
                       => n >= 1 /\ parseErrors[n] = MissingExitMessage

\* C36, witness: in fail-fast mode the program "pop", "pish" without exit has
\* failed with the error of its second line
MalformedLineWithoutExitFailedOnTheLine ==
    /\ ~collectErrors /\ raised = "SyntaxException"
    /\ program = <<<<"p", "o", "p">>, <<"p", "i", "s", "h">>>>
    /\ Len(parseErrors) = 1 /\ parseErrors[1].msg = "Unknown instruction"

\* the keyword of the command kinds that take no value
KeywordOf(kind) ==
    CASE kind = "pop" -> <<"p", "o", "p">>
      [] kind = "dump" -> <<"d", "u", "m", "p">>
      [] kind = "add" -> <<"a", "d", "d">>
      [] kind = "sub" -> <<"s", "u", "b">>
      [] kind = "mul" -> <<"m", "u", "l">>
      [] kind = "div" -> <<"d", "i", "v">>
      [] kind = "mod" -> <<"m", "o", "d">>
      [] kind = "print" -> <<"p", "r", "i", "n", "t">>
      [] kind = "exit" -> <<"e", "x", "i", "t">>
      [] OTHER -> <<>>

\* cmd is the command of the instruction written on line
CommandOfLine(cmd, line) ==
    LET Built(o) ==
            LET made == createOperand(o.type, o.text)
            IN  /\ made.err = "none"
                /\ cmd.operand.id # 0
                /\ cmd.operand.type = o.type
                /\ cmd.operand.value = made.op.value
                /\ cmd.operand.str = made.op.str
    IN  \/ line = KeywordOf(cmd.kind) /\ cmd.operand = NoOperand
        \/ \E o \in CmdOperands \cup TopOperands :
              \/ cmd.kind = "push" /\ line = PushLine(o) /\ Built(o)
              \/ cmd.kind = "assert" /\ line = AssertLine(o) /\ Built(o)

\* C37: for a program that parses without error, parse returns one command
\* per instruction, in the order of the instructions, each of the kind of its
\* keyword, and each push and assert with the operand of its own type and
\* literal; no two commands hold the same operand
CommandsFollowTheProgram ==
    (pc = "exec" /\ executed = <<>>)
        => /\ parseErrors = <<>>
           /\ Len(commands) = Len(program)
           /\ \A i \in 1..Len(commands) : CommandOfLine(commands[i], program[i])
           /\ \A i, j \in 1..Len(commands) :
                 (i # j /\ commands[i].operand # NoOperand)
                    => commands[i].operand.id # commands[j].operand.id

\* C37, witness: "push int16(65)", "assert int32(42)", "exit" has been parsed
\* into three commands, the second an assert with an int32 42
ParsedPushAssertExit ==
    /\ pc = "exec" /\ executed = <<>>
    /\ program = <<PushLine([type |-> "Int16", text |-> <<"6", "5">>]),
                   AssertLine([type |-> "Int32", text |-> <<"4", "2">>]),
                   <<"e", "x", "i", "t">>>>
    /\ Len(commands) = 3
    /\ commands[2].kind = "assert" /\ commands[2].operand.type = "Int32"
    /\ commands[2].operand.str = <<"4", "2">>

(***************************************************************************)
(* Termination.  run is sequential code: a step that can be taken is       *)
(* taken, which is weak fairness of Next.  The programs have instructions, *)
(* comments, end markers and lexical and syntactic defects of each kind.   *)
(***************************************************************************)
\* the most lines a program text of SpecLive has
MaxLiveLines == 2

\* the lines the program texts of SpecLive are made of
LiveLines ==
    {<<"p", "o", "p", " ", "p", "o", "p">>,
     <<"e", "x", "i", "t">>,
     <<";", ";">>,
     <<"d", "u", "m", "p", " ", ";", " ", "c", ";", ";">>,
     <<"P", "U", "S", "H", " ", "i", "n", "t", "8", "(", "1", ")">>,
     <<"@", ";", ";">>,
     <<"p", "u", "s", "h", " ", "i", "n", "t", "8">>,
     <<"p", "u", "s", "h", " ", "(", "-", ")">>,
     <<"a", "d", "d", " ", "@">>}

ProgramsLive == UNION {[1..n -> LiveLines] : n \in 0..MaxLiveLines}

InitLive ==
    /\ program \in ProgramsLive
    /\ fromStdin \in BOOLEAN
    /\ collectErrors \in BOOLEAN
    /\ created = NoCreated
    /\ Constructed

SpecLive == InitLive /\ [][Next]_vars /\ WF_vars(Next)

RECURSIVE Advanced(_, _)
\* the lexer after k more calls of advance
Advanced(L, k) == IF k = 0 THEN L ELSE Advanced(LexerAdvance(L), k - 1)

\* what the lexer has consumed: the characters read, and the end once reached
Consumed(L) == L.pos + (IF L.endReached THEN 1 ELSE 0)

\* at every position of the input, nextToken throws, returns the end marker or
\* consumes a character, also when it recovers from an unknown character
LexerConsumes ==
    LET text == Text(program)
    IN  \A k \in 1..Len(text) + 1 :
            LET Moved(L, r) ==
                    \/ r.thrown
                    \/ r.tok.type \in {"END_FILE", "END_INPUT"}
                    \/ Consumed(r.L) > Consumed(L)
                From(L) == Moved(L, nextToken(L))
            IN  From(Advanced(Lexer(text, fromStdin, collectErrors), k))

\* at every token, Parser::error throws or leaves the parser on a later token
\* or on the end marker, and so does parseInstruction
ParserConsumes ==
    \A i \in 0..Len(tokens) - 1 :
        LET Moved(Q) ==
                \/ Q.thrown
                \/ Q.currentIndex > i
                \/ currentToken(Q).type \in {"END_FILE", "END_INPUT"}
            From(P) ==
                /\ Moved(error(P, Message("Unknown instruction", 0)))
                /\ currentToken(P).type # "NEWLINE" => Moved(parseInstruction(P).P)
        IN  From([Parser(tokens, collectErrors, 1) EXCEPT !.currentIndex = i])

\* C38: tokenize and parse terminate for every input in both modes: every
\* step of the lexer consumes a character and every step of the parser a
\* token, error recovery included, unless it reaches the end marker or throws;
\* and run eventually returns or raises
RunTerminates ==
    /\ [](pc = "start" => LexerConsumes)
    /\ [](pc = "lexed" => ParserConsumes)
    /\ <>Terminated

\* C38, witness: a run in collection mode has returned after the lexer
\* recovered from an unknown character and the parser from two errors
ReturnedAfterRecoveries ==
    /\ collectErrors /\ pc = "returned"
    /\ lexErrors # <<>>
    /\ Len(parseErrors) >= 2

=============================================================================
